---- MODULE Spec2Model ----
(***************************************************************************)
(* Option / Result containers and their promise-wrapped variants           *)
(* (AsyncOption / AsyncResult) of the `maybe` library.                     *)
(*                                                                         *)
(* Objects live in a heap (a sequence of cells, the index is the object's  *)
(* identity).  A method is an operator from a store (heap + the trace of   *)
(* user callbacks invoked so far) to an outcome: the store afterwards and  *)
(* either a returned value or a thrown error.                              *)
(***************************************************************************)
EXTENDS Integers, Sequences, FiniteSets, TLC

(* ----------------------------- bounds --------------------------------- *)
\* payload numbers are 0 .. MaxVal-1
MaxVal == 2
\* a synchronous run makes calls while it holds at most MaxHeap objects
MaxHeap == 2
\* a chain of combinator calls on wrappers has at most MaxChain calls, and
\* so has a run of applications of flatten / transpose
MaxChain == 2
\* at most this many containers are built before flatten / transpose
MaxNest == 3

\* the element of a one-element set
Only(S) == CHOOSE x \in S : TRUE

(* ----------------------------- values --------------------------------- *)
\* A JavaScript value: a number, a boolean, undefined,
\* or a reference to a heap object.
Num(n) == [k |-> "num", a |-> n]
Bool(t) == [k |-> "bool", a |-> IF t THEN 1 ELSE 0]
Ref(i) == [k |-> "ref", a |-> i]
Undef == [k |-> "undef", a |-> 0]
\* null, and the empty string (a string is held as its length)
Null == [k |-> "null", a |-> 0]
EmptyString == [k |-> "str", a |-> 0]
\* a Promise / an AsyncOption or AsyncResult instance, by identity
PromiseRef(p) == [k |-> "promise", a |-> p]
WrapperRef(w) == [k |-> "wrapper", a |-> w]

Nums == {Num(n) : n \in 0 .. (MaxVal - 1)}
\* the messages a caller passes to expect / expectErr
Messages == <<"m1", "m2">>

\* x === y : primitives by value, objects by identity
StrictEq(x, y) == x = y
\* the truthiness `c ? a : b` tests
Truthy(x) ==
    CASE x.k = "bool" -> x.a = 1
      [] x.k = "num" -> x.a # 0
      [] x.k = "undef" -> FALSE
      [] x.k = "null" -> FALSE
      [] x.k = "str" -> x.a # 0
      [] OTHER -> TRUE

(* ----------------------------- store ---------------------------------- *)

Ret(s, v) == [s |-> s, st |-> "return", v |-> v, cls |-> "", msg |-> ""]
Throw(s, cls, msg) == [s |-> s, st |-> "throw", v |-> Undef, cls |-> cls, msg |-> msg]
\* `new C(fields)`: a fresh object, never an existing one
NewObject(s, tag, fields) ==
    Ret([s EXCEPT !.heap = Append(@, [tag |-> tag, fields |-> fields])],
        Ref(Len(s.heap) + 1))

Tag(s, v) == IF v.k = "ref" THEN s.heap[v.a].tag ELSE "none"
\* this.value of Some / Ok, this.error of Err
Field(s, self) == s.heap[self].fields[1]

(* --------------------------- constructors ----------------------------- *)
\* Option.some / Option.none / Result.ok / Result.err: each call is `new`
Option_some(s, value) == NewObject(s, "Some", <<value>>)
Option_none(s) == NewObject(s, "None", << >>)
Result_ok(s, value) == NewObject(s, "Ok", <<value>>)
Result_err(s, error) == NewObject(s, "Err", <<error>>)

(* --------------------------- function values -------------------------- *)
\* A function value: f names the function, env is the value its closure
\* captured, g the user function a library closure forwards to.
Fn(f) == [f |-> f, env |-> Undef, g |-> ""]
Closure(f, env, g) == [f |-> f, env |-> env, g |-> g]

\* A call o.m(...): x is the value / container argument, f and g the
\* function arguments (f the first one), msg the message of expect.
Call(m, x, f, g, msg) == [m |-> m, x |-> x, f |-> Fn(f), g |-> Fn(g), msg |-> msg]
NoArg == Call("", Undef, "", "", "")

(* ============================ promises ================================ *)
(* The store of an asynchronous run adds to heap and calls:               *)
(*   promises  each promise's state, value (fulfilled) or reason          *)
(*             (rejected: cls and msg of a thrown error, or the value     *)
(*             the producer rejected with)                                *)
(*   reacts    the reactions registered by then() on pending promises     *)
(*   queue     the microtask queue: reactions of settled promises         *)
(*   wrappers  the AsyncOption / AsyncResult instances                    *)
(*   subs      the promises then() was ever called on                     *)
(**************************************************************************)
Pending == [state |-> "pending", value |-> Undef, cls |-> "", msg |-> ""]
Fulfilled(v) == [state |-> "fulfilled", value |-> v, cls |-> "", msg |-> ""]
Rejected(v, cls, msg) == [state |-> "rejected", value |-> v, cls |-> cls, msg |-> msg]

\* the resolving functions of promise d, given to then() when d adopts q
Adopt(d) == [kind |-> "adopt", c |-> NoArg, other |-> 0, first |-> Undef]

\* settle a pending promise: its reactions become jobs, in the order they
\* were registered; a promise already settled stays as it is
Settle(s, p, outcome) ==
    IF s.promises[p].state # "pending" THEN s
    ELSE [s EXCEPT !.promises[p] = outcome,
                   !.queue = @ \o SelectSeq(s.reacts, LAMBDA r : r.on = p),
                   !.reacts = SelectSeq(@, LAMBDA r : r.on # p)]

\* a then() whose reaction never runs when the promise is already settled
Subscribe_pendingOnly(s, r) ==
    [s EXCEPT !.subs = @ \cup {r.on}, !.reacts = Append(@, r)]

\* register reaction r on promise r.on: a job at once when it is settled
Subscribe(s, r) ==
    LET s1 == [s EXCEPT !.subs = @ \cup {r.on}] IN
    IF s.promises[r.on].state = "pending"
    THEN [s1 EXCEPT !.reacts = Append(@, r)]
    ELSE [s1 EXCEPT !.queue = Append(@, r)]

\* promise.then(h): a new pending promise d, settled by h's outcome
Then(s, p, h) ==
    LET d == Len(s.promises) + 1
        s1 == [s EXCEPT !.promises = Append(@, Pending)]
    IN Ret(Subscribe(s1, [on |-> p, h |-> h, d |-> d, job |-> "reaction"]), PromiseRef(d))

\* Promise.resolve(v) for a value that is no promise
Promise_resolve(s, v) ==
    Ret([s EXCEPT !.promises = Append(@, Fulfilled(v))], PromiseRef(Len(s.promises) + 1))

\* resolve d with r: r a promise -> a job that will call r.then(resolve d);
\* any other value fulfils d
Resolve(s, d, r) ==
    IF r.k = "promise"
    THEN [s EXCEPT !.queue = Append(@, [on |-> r.a, h |-> Adopt(d), d |-> d, job |-> "thenable"])]
    ELSE Settle(s, d, Fulfilled(r))

\* `new AsyncOption(promise)` / `new AsyncResult(promise)`: a fresh wrapper
NewWrapper(s, cls, promise) ==
    Ret([s EXCEPT !.wrappers = Append(@, [cls |-> cls, promise |-> promise.a])],
        WrapperRef(Len(s.wrappers) + 1))

AsyncOption_fromPromiseOfOption(s, promise) == NewWrapper(s, "AsyncOption", promise)
AsyncOption_fromOption(s, option) ==
    LET r == Promise_resolve(s, option) IN AsyncOption_fromPromiseOfOption(r.s, r.v)
AsyncOption_some(s, value) ==
    LET r == Option_some(s, value) IN AsyncOption_fromOption(r.s, r.v)
AsyncOption_none(s) ==
    LET r == Option_none(s) IN AsyncOption_fromOption(r.s, r.v)

AsyncResult_fromPromiseOfResult(s, result) == NewWrapper(s, "AsyncResult", result)
AsyncResult_fromResult(s, result) ==
    LET r == Promise_resolve(s, result) IN AsyncResult_fromPromiseOfResult(r.s, r.v)
AsyncResult_ok(s, value) ==
    LET r == Result_ok(s, value) IN AsyncResult_fromResult(r.s, r.v)
AsyncResult_err(s, error) ==
    LET r == Result_err(s, error) IN AsyncResult_fromResult(r.s, r.v)

\* an asPromise() that hands out the promise created last
AsPromise_latest(s, wrapper) == PromiseRef(Len(s.promises))
\* wrapper.asPromise()
AsPromise(s, wrapper) == PromiseRef(s.wrappers[wrapper.a].promise)

(* ----------------------------- callbacks ------------------------------ *)

\* The callbacks a caller supplies.
UserFn(s, f, x, y) ==
    CASE f = "id" -> Ret(s, x)
      [] f = "next" -> Ret(s, IF x.k = "num" THEN Num((x.a + 1) % MaxVal) ELSE x)
      [] f = "zero" -> Ret(s, Num(0))
      [] f = "isZero" -> Ret(s, Bool(x = Num(0)))
      [] f = "some" -> Option_some(s, x)
      [] f = "none" -> Option_none(s)
      [] f = "ok" -> Result_ok(s, x)
      [] f = "err" -> Result_err(s, x)
      [] f = "snd" -> Ret(s, y)
      [] f = "asyncSome" -> AsyncOption_some(s, x)
      [] f = "asyncNone" -> AsyncOption_none(s)
      [] f = "asyncOk" -> AsyncResult_ok(s, x)
      [] f = "asyncErr" -> AsyncResult_err(s, x)
      [] f = "other" -> Ret(s, WrapperRef(2))
      [] OTHER -> Throw(s, "UserError", f)

\* An invocation of a user callback; every invocation is recorded in calls,
\* with its argument and what it returned.
UserCall(s, f, x, y) ==
    LET r == UserFn(s, f, x, y) IN
    [r EXCEPT !.s.calls = Append(@, [f |-> f, x |-> x, st |-> r.st, v |-> r.v])]

\* the callbacks f a caller composes into x => f(x).andThen(g); the closure
\* holds f as the function value FnVal(f)
Composable == <<"some", "none", "boom">>
FnVal(f) == [k |-> "fn", a |-> CHOOSE i \in DOMAIN Composable : Composable[i] = f]

\* fn(x): a user callback, or one of the closures the library builds itself
CallFn(s, fn, x) ==
    CASE fn.f = "zipPair" -> NewObject(s, "Array", <<fn.env, x>>)
      [] fn.f = "zipWithFn" -> UserCall(s, fn.g, fn.env, x)
      [] fn.f = "someOf" -> Option_some(s, x)
      [] fn.f = "okOf" -> Result_ok(s, x)
      [] fn.f = "errOf" -> Result_err(s, x)
      [] fn.f = "const" -> Ret(s, fn.env)
      [] OTHER -> UserCall(s, fn.f, x, Undef)

(* ------------------------------- None --------------------------------- *)
None_and(s, self) == Ret(s, Ref(self))
None_andThen(s, self) == Ret(s, Ref(self))
\* a None.expect that drops the caller's message
None_expect_noMessage(s, self, message) == Throw(s, "UnwrapNoneError", "expect called on None")
None_expect(s, self, message) == Throw(s, "UnwrapNoneError", message)
None_filter(s, self) == Ret(s, Ref(self))
None_isNone(s, self) == Ret(s, Bool(TRUE))
None_isSome(s, self) == Ret(s, Bool(FALSE))
\* a None.map that allocates the None it returns
None_map_fresh(s, self) == Option_none(s)
None_map(s, self) == Ret(s, Ref(self))
None_mapOr(s, self, or) == Option_some(s, or)
None_mapOrElse(s, self, or) ==
    LET r == CallFn(s, or, Undef) IN
    IF r.st = "throw" THEN r ELSE Option_some(r.s, r.v)
None_okOr(s, self, error) == Result_err(s, error)
None_okOrElse(s, self, fn) ==
    LET r == CallFn(s, fn, Undef) IN
    IF r.st = "throw" THEN r ELSE Result_err(r.s, r.v)
None_or(s, self, option) == Ret(s, option)
None_orElse(s, self, fn) == CallFn(s, fn, Undef)
\* a variant of None.unwrap that returns undefined instead of throwing
None_unwrap_undefined(s, self) == Ret(s, Undef)
None_unwrap(s, self) == Throw(s, "UnwrapNoneError", "unwrap called on None")
None_unwrapOr(s, self, value) == Ret(s, value)
None_unwrapOrElse(s, self, fn) == CallFn(s, fn, Undef)
None_xor(s, self, option) == Ret(s, option)
None_zip(s, self) == Ret(s, Ref(self))
None_zipWith(s, self) == Ret(s, Ref(self))

(* ------------------------------- Some --------------------------------- *)
Some_and(s, self, option) == Ret(s, option)
RECURSIVE Some_andThen(_, _, _)
\* the caller's closure x => f(x).andThen(g), where f returns an Option
AndThenOf(s, fn, x) ==
    Only({IF r.st = "throw" THEN r
          ELSE IF Tag(r.s, r.v) = "Some" THEN Some_andThen(r.s, r.v.a, Fn(fn.g))
          ELSE None_andThen(r.s, r.v.a) :
            r \in {UserCall(s, Composable[fn.env.a], x, Undef)}})
\* a Some.andThen that wraps what the function returns, as map does
Some_andThen_wrapped(s, self, fn) ==
    Only({IF r.st = "throw" THEN r ELSE NewObject(r.s, "Some", <<r.v>>) :
            r \in {IF fn.f = "andThenOf" THEN AndThenOf(s, fn, Field(s, self))
                   ELSE CallFn(s, fn, Field(s, self))}})
\* fn(this.value), fn a callback or the closure above
Some_andThen(s, self, fn) ==
    IF fn.f = "andThenOf" THEN AndThenOf(s, fn, Field(s, self))
    ELSE CallFn(s, fn, Field(s, self))
Some_expect(s, self) == Ret(s, Field(s, self))
\* a filter that turns the receiver into None in place
Some_filter_inPlace(s, self, fn) ==
    LET r == CallFn(s, fn, Field(s, self)) IN
    IF r.st = "throw" THEN r
    ELSE IF Truthy(r.v) THEN Ret(r.s, Ref(self))
    ELSE Ret([r.s EXCEPT !.heap[self] = [tag |-> "None", fields |-> << >>]], Ref(self))
\* a Some.filter that wraps the value again when the predicate holds
Some_filter_copy(s, self, fn) ==
    LET r == CallFn(s, fn, Field(s, self)) IN
    IF r.st = "throw" THEN r
    ELSE IF Truthy(r.v) THEN Option_some(r.s, Field(s, self)) ELSE Option_none(r.s)
Some_filter(s, self, fn) ==
    LET r == CallFn(s, fn, Field(s, self)) IN
    IF r.st = "throw" THEN r
    ELSE IF Truthy(r.v) THEN Ret(r.s, Ref(self)) ELSE Option_none(r.s)
Some_isNone(s, self) == Ret(s, Bool(FALSE))
Some_isSome(s, self) == Ret(s, Bool(TRUE))
\* a Some.map that returns what the function returns, without wrapping it
Some_map_unwrapped(s, self, fn) == CallFn(s, fn, Field(s, self))
Some_map(s, self, fn) ==
    LET r == CallFn(s, fn, Field(s, self)) IN
    IF r.st = "throw" THEN r ELSE NewObject(r.s, "Some", <<r.v>>)
Some_mapOr(s, self, fn) == Some_map(s, self, fn)
Some_mapOrElse(s, self, fn) == Some_map(s, self, fn)
Some_okOr(s, self) == Result_ok(s, Field(s, self))
Some_okOrElse(s, self) == Result_ok(s, Field(s, self))
Some_or(s, self) == Ret(s, Ref(self))
Some_orElse(s, self) == Some_or(s, self)
Some_unwrap(s, self) == Ret(s, Field(s, self))
Some_unwrapOr(s, self) == Some_unwrap(s, self)
Some_unwrapOrElse(s, self) == Some_unwrap(s, self)
Some_intoSome(s, self) == Ret(s, Field(s, self))

\* option.isSome() / option.map(fn) on an option whose class is not known
\* statically: the call goes to the method of the object's class
Option_isSome(s, option) ==
    IF Tag(s, option) = "Some" THEN Some_isSome(s, option.a) ELSE None_isSome(s, option.a)
Option_map(s, option, fn) ==
    IF Tag(s, option) = "Some" THEN Some_map(s, option.a, fn) ELSE None_map(s, option.a)

\* a Some.xor that returns the receiver whatever the argument is
Some_xor_keep(s, self, option) == Ret(s, Ref(self))
Some_xor(s, self, option) ==
    IF Truthy(Option_isSome(s, option).v) THEN Option_none(s) ELSE Ret(s, Ref(self))
Some_zip(s, self, option) ==
    Option_map(s, option, Closure("zipPair", Field(s, self), ""))
\* a Some.zipWith that combines without looking at the class of the argument
Some_zipWith_eager(s, self, option, fn) ==
    Some_map(s, self, Closure("zipWithFn", Field(s, self), fn.f))
Some_zipWith(s, self, option, fn) ==
    Option_map(s, option, Closure("zipWithFn", Field(s, self), fn.f))

(* -------------------------------- Ok ---------------------------------- *)
Ok_and(s, self, result) == Ret(s, result)
Ok_andThen(s, self, fn) == CallFn(s, fn, Field(s, self))
Ok_err(s, self) == Option_none(s)
Ok_expect(s, self) == Ret(s, Field(s, self))
\* an Ok.expectErr that throws the error class of Err.expect
Ok_expectErr_sameKind(s, self, message) == Throw(s, "EmptyResultError", message)
Ok_expectErr(s, self, message) == Throw(s, "UnwrapOkError", message)
Ok_isErr(s, self) == Ret(s, Bool(FALSE))
Ok_isOk(s, self) == Ret(s, Bool(TRUE))
Ok_map(s, self, fn) ==
    LET r == CallFn(s, fn, Field(s, self)) IN
    IF r.st = "throw" THEN r ELSE NewObject(r.s, "Ok", <<r.v>>)
Ok_mapErr(s, self) == Ret(s, Ref(self))
\* an Ok.mapOr that wraps the mapped value again, as Some.mapOr does
Ok_mapOr_wrapped(s, self, fn) == Ok_map(s, self, fn)
Ok_mapOr(s, self, fn) == CallFn(s, fn, Field(s, self))
Ok_mapOrElse(s, self, fn) == CallFn(s, fn, Field(s, self))
Ok_ok(s, self) == Option_some(s, Field(s, self))
Ok_or(s, self) == Ret(s, Ref(self))
Ok_orElse(s, self) == Ret(s, Ref(self))
Ok_unwrap(s, self) == Ret(s, Field(s, self))
Ok_unwrapErr(s, self) == Throw(s, "UnwrapOkError", "unwrap error called on Ok")
Ok_unwrapOr(s, self) == Ret(s, Field(s, self))
Ok_unwrapOrElse(s, self) == Ret(s, Field(s, self))
Ok_intoOk(s, self) == Ret(s, Field(s, self))

(* -------------------------------- Err --------------------------------- *)
Err_and(s, self) == Ret(s, Ref(self))
Err_andThen(s, self) == Ret(s, Ref(self))
Err_err(s, self) == Option_some(s, Field(s, self))
Err_expect(s, self, message) == Throw(s, "EmptyResultError", message)
Err_expectErr(s, self) == Ret(s, Field(s, self))
Err_isErr(s, self) == Ret(s, Bool(TRUE))
Err_isOk(s, self) == Ret(s, Bool(FALSE))
\* an Err.map that wraps the receiver in another Err
Err_map_wrapped(s, self) == Result_err(s, Ref(self))
Err_map(s, self) == Ret(s, Ref(self))
Err_mapErr(s, self, fn) ==
    LET r == CallFn(s, fn, Field(s, self)) IN
    IF r.st = "throw" THEN r ELSE NewObject(r.s, "Err", <<r.v>>)
Err_mapOr(s, self, or) == Ret(s, or)
Err_mapOrElse(s, self, or) == CallFn(s, or, Field(s, self))
\* an Err.ok that keeps the error as if it were a value
Err_ok_some(s, self) == Option_some(s, Field(s, self))
Err_ok(s, self) == Option_none(s)
Err_or(s, self, result) == Ret(s, result)
Err_orElse(s, self, fn) == CallFn(s, fn, Field(s, self))
Err_unwrap(s, self) == Throw(s, "EmptyResultError", "unwrap called on Err")
Err_unwrapErr(s, self) == Ret(s, Field(s, self))
Err_intoErr(s, self) == Ret(s, Field(s, self))
Err_unwrapOr(s, self, or) == Ret(s, or)
Err_unwrapOrElse(s, self, fn) == CallFn(s, fn, Field(s, self))

\* result.isOk() / isErr() / unwrapErr() on a result whose class is not
\* known statically
Result_isOk(s, result) ==
    IF Tag(s, result) = "Ok" THEN Ok_isOk(s, result.a) ELSE Err_isOk(s, result.a)
Result_isErr(s, result) ==
    IF Tag(s, result) = "Ok" THEN Ok_isErr(s, result.a) ELSE Err_isErr(s, result.a)
Result_unwrapErr(s, result) ==
    IF Tag(s, result) = "Ok" THEN Ok_unwrapErr(s, result.a) ELSE Err_unwrapErr(s, result.a)

(* ------------------------- method dispatch ---------------------------- *)

Some_call(s, self, c) ==
    CASE c.m = "and" -> Some_and(s, self, c.x)
      [] c.m = "andThen" -> Some_andThen(s, self, c.f)
      [] c.m = "apply" -> CallFn(s, c.f, Ref(self))
      [] c.m = "contains" -> Ret(s, Bool(StrictEq(Field(s, self), c.x)))
      [] c.m = "expect" -> Some_expect(s, self)
      [] c.m = "filter" -> Some_filter(s, self, c.f)
      [] c.m = "isNone" -> Some_isNone(s, self)
      [] c.m = "isSome" -> Some_isSome(s, self)
      [] c.m = "iter" -> NewObject(s, "Iterator", <<Field(s, self)>>)
      [] c.m = "map" -> Some_map(s, self, c.f)
      [] c.m = "mapOr" -> Some_mapOr(s, self, c.g)
      [] c.m = "mapOrElse" -> Some_mapOrElse(s, self, c.g)
      [] c.m = "okOr" -> Some_okOr(s, self)
      [] c.m = "okOrElse" -> Some_okOrElse(s, self)
      [] c.m = "or" -> Some_or(s, self)
      [] c.m = "orElse" -> Some_orElse(s, self)
      [] c.m = "unwrap" -> Some_unwrap(s, self)
      [] c.m = "unwrapOr" -> Some_unwrapOr(s, self)
      [] c.m = "unwrapOrElse" -> Some_unwrapOrElse(s, self)
      [] c.m = "xor" -> Some_xor(s, self, c.x)
      [] c.m = "zip" -> Some_zip(s, self, c.x)
      [] c.m = "zipWith" -> Some_zipWith(s, self, c.x, c.f)

None_call(s, self, c) ==
    CASE c.m = "and" -> None_and(s, self)
      [] c.m = "andThen" -> None_andThen(s, self)
      [] c.m = "apply" -> CallFn(s, c.f, Ref(self))
      [] c.m = "contains" -> Ret(s, Bool(FALSE))
      [] c.m = "expect" -> None_expect(s, self, c.msg)
      [] c.m = "filter" -> None_filter(s, self)
      [] c.m = "isNone" -> None_isNone(s, self)
      [] c.m = "isSome" -> None_isSome(s, self)
      [] c.m = "iter" -> NewObject(s, "Iterator", << >>)
      [] c.m = "map" -> None_map(s, self)
      [] c.m = "mapOr" -> None_mapOr(s, self, c.x)
      [] c.m = "mapOrElse" -> None_mapOrElse(s, self, c.f)
      [] c.m = "okOr" -> None_okOr(s, self, c.x)
      [] c.m = "okOrElse" -> None_okOrElse(s, self, c.f)
      [] c.m = "or" -> None_or(s, self, c.x)
      [] c.m = "orElse" -> None_orElse(s, self, c.f)
      [] c.m = "unwrap" -> None_unwrap(s, self)
      [] c.m = "unwrapOr" -> None_unwrapOr(s, self, c.x)
      [] c.m = "unwrapOrElse" -> None_unwrapOrElse(s, self, c.f)
      [] c.m = "xor" -> None_xor(s, self, c.x)
      [] c.m = "zip" -> None_zip(s, self)
      [] c.m = "zipWith" -> None_zipWith(s, self)

Ok_call(s, self, c) ==
    CASE c.m = "and" -> Ok_and(s, self, c.x)
      [] c.m = "andThen" -> Ok_andThen(s, self, c.f)
      [] c.m = "apply" -> CallFn(s, c.f, Ref(self))
      [] c.m = "contains" -> Ret(s, Bool(StrictEq(Field(s, self), c.x)))
      [] c.m = "containsErr" -> Ret(s, Bool(FALSE))
      [] c.m = "err" -> Ok_err(s, self)
      [] c.m = "expect" -> Ok_expect(s, self)
      [] c.m = "expectErr" -> Ok_expectErr(s, self, c.msg)
      [] c.m = "intoOkOrError" -> Ret(s, Field(s, self))
      [] c.m = "isErr" -> Ok_isErr(s, self)
      [] c.m = "isOk" -> Ok_isOk(s, self)
      [] c.m = "iter" -> NewObject(s, "Iterator", <<Field(s, self)>>)
      [] c.m = "map" -> Ok_map(s, self, c.f)
      [] c.m = "mapErr" -> Ok_mapErr(s, self)
      [] c.m = "mapOr" -> Ok_mapOr(s, self, c.g)
      [] c.m = "mapOrElse" -> Ok_mapOrElse(s, self, c.g)
      [] c.m = "ok" -> Ok_ok(s, self)
      [] c.m = "or" -> Ok_or(s, self)
      [] c.m = "orElse" -> Ok_orElse(s, self)
      [] c.m = "unwrap" -> Ok_unwrap(s, self)
      [] c.m = "unwrapErr" -> Ok_unwrapErr(s, self)
      [] c.m = "unwrapOr" -> Ok_unwrapOr(s, self)
      [] c.m = "unwrapOrElse" -> Ok_unwrapOrElse(s, self)

Err_call(s, self, c) ==
    CASE c.m = "and" -> Err_and(s, self)
      [] c.m = "andThen" -> Err_andThen(s, self)
      [] c.m = "apply" -> CallFn(s, c.f, Ref(self))
      [] c.m = "contains" -> Ret(s, Bool(FALSE))
      [] c.m = "containsErr" -> Ret(s, Bool(StrictEq(Field(s, self), c.x)))
      [] c.m = "err" -> Err_err(s, self)
      [] c.m = "expect" -> Err_expect(s, self, c.msg)
      [] c.m = "expectErr" -> Err_expectErr(s, self)
      [] c.m = "intoOkOrError" -> Ret(s, Field(s, self))
      [] c.m = "isErr" -> Err_isErr(s, self)
      [] c.m = "isOk" -> Err_isOk(s, self)
      [] c.m = "iter" -> NewObject(s, "Iterator", << >>)
      [] c.m = "map" -> Err_map(s, self)
      [] c.m = "mapErr" -> Err_mapErr(s, self, c.f)
      [] c.m = "mapOr" -> Err_mapOr(s, self, c.x)
      [] c.m = "mapOrElse" -> Err_mapOrElse(s, self, c.f)
      [] c.m = "ok" -> Err_ok(s, self)
      [] c.m = "or" -> Err_or(s, self, c.x)
      [] c.m = "orElse" -> Err_orElse(s, self, c.f)
      [] c.m = "unwrap" -> Err_unwrap(s, self)
      [] c.m = "unwrapErr" -> Err_unwrapErr(s, self)
      [] c.m = "unwrapOr" -> Err_unwrapOr(s, self, c.x)
      [] c.m = "unwrapOrElse" -> Err_unwrapOrElse(s, self, c.f)

\* o.m(...): the method of o's class
Invoke(s, self, c) ==
    CASE s.heap[self].tag = "Some" -> Some_call(s, self, c)
      [] s.heap[self].tag = "None" -> None_call(s, self, c)
      [] s.heap[self].tag = "Ok" -> Ok_call(s, self, c)
      [] s.heap[self].tag = "Err" -> Err_call(s, self, c)

(* ============== functions of the namespaces Option and Result ========= *)
\* an Option.fromOptional that tests the truthiness of the value
Option_fromOptional_falsy(s, value) ==
    IF Truthy(value) THEN Option_some(s, value) ELSE Option_none(s)

\* Option.fromOptional:
\*   value === null || value === undefined ? none() : some(value)
Option_fromOptional(s, value) ==
    IF StrictEq(value, Null) \/ StrictEq(value, Undef)
    THEN Option_none(s) ELSE Option_some(s, value)

\* an Option.flatten that goes on unwrapping while it finds a Some of an
\* Option
Option_flatten_twice(s, option) ==
    Only({IF Tag(r.s, r.v) = "Some" /\ Tag(r.s, Field(r.s, r.v.a)) \in {"Some", "None"}
          THEN Some_unwrap(r.s, r.v.a) ELSE r :
            r \in {Invoke(s, option.a, Call("unwrapOr", Undef, "", "", ""))}})

\* Option.flatten: option => option.unwrapOr(none()); the argument none() is
\* evaluated before the call
Option_flatten(s, option) ==
    Only({Invoke(n.s, option.a, Call("unwrapOr", n.v, "", "", "")) :
            n \in {Option_none(s)}})

\* an Option.transpose that hands back the Result inside the Some as it is
Option_transpose_inner(s, option) ==
    IF Truthy(Option_isSome(s, option).v)
    THEN Some_intoSome(s, option.a)
    ELSE Only({Result_ok(n.s, n.v) : n \in {Option_none(s)}})

\* Option.transpose:
\*   option.isSome() ? option.intoSome().map(value => some(value))
\*                   : Result.ok(none())
Option_transpose(s, option) ==
    IF Truthy(Option_isSome(s, option).v)
    THEN Invoke(s, Some_intoSome(s, option.a).v.a, Call("map", Undef, "someOf", "", ""))
    ELSE Only({Result_ok(n.s, n.v) : n \in {Option_none(s)}})

\* Result.flatten: result => result.unwrapOrElse(error => err(error))
Result_flatten(s, result) ==
    Invoke(s, result.a, Call("unwrapOrElse", Undef, "errOf", "", ""))

\* a Result.transpose that drops the error, as result.ok() does
Result_transpose_dropErr(s, result) ==
    IF Truthy(Result_isOk(s, result).v)
    THEN Invoke(s, Ok_intoOk(s, result.a).v.a, Call("map", Undef, "okOf", "", ""))
    ELSE Option_none(s)

\* Result.transpose:
\*   result.isOk() ? result.intoOk().map(ok) : Option.some(result)
Result_transpose(s, result) ==
    IF Truthy(Result_isOk(s, result).v)
    THEN Invoke(s, Ok_intoOk(s, result.a).v.a, Call("map", Undef, "okOf", "", ""))
    ELSE Option_some(s, result)

(* ===================== AsyncOption / AsyncResult ====================== *)
\* the function a method passes to this.promise.then(...)
Handler(kind, c, other, first) == [kind |-> kind, c |-> c, other |-> other, first |-> first]

\* an andThen that calls fn and does not wait for the wrapper it returns
AsyncOption_andThen_then_noWait(s, fn, option) ==
    IF Truthy(Option_isSome(s, option).v)
    THEN LET r == CallFn(s, fn, Some_intoSome(s, option.a).v) IN
         IF r.st = "throw" THEN r ELSE Ret(r.s, option)
    ELSE Option_none(s)

\* an andThen that calls fn whatever the option is
AsyncOption_andThen_then_always(s, fn, option) ==
    LET r == CallFn(s, fn, IF Tag(s, option) = "Some" THEN Field(s, option.a) ELSE Undef) IN
    IF r.st = "throw" THEN r ELSE Ret(r.s, AsPromise(r.s, r.v))

\* AsyncOption.andThen:
\*   option => option.isSome() ? fn(option.intoSome()).asPromise() : Option.none()
AsyncOption_andThen_then(s, fn, option) ==
    IF Truthy(Option_isSome(s, option).v)
    THEN LET r == CallFn(s, fn, Some_intoSome(s, option.a).v) IN
         IF r.st = "throw" THEN r ELSE Ret(r.s, AsPromise(r.s, r.v))
    ELSE Option_none(s)

\* an AsyncOption.orElse that calls fn before it looks at the option
AsyncOption_orElse_then_eager(s, fn, option) ==
    LET r == CallFn(s, fn, Undef) IN
    IF r.st = "throw" THEN r
    ELSE IF Truthy(Option_isSome(r.s, option).v) THEN Ret(r.s, option)
    ELSE Ret(r.s, AsPromise(r.s, r.v))

\* AsyncOption.orElse:  option => option.isSome() ? option : fn().asPromise()
AsyncOption_orElse_then(s, fn, option) ==
    IF Truthy(Option_isSome(s, option).v)
    THEN Ret(s, option)
    ELSE LET r == CallFn(s, fn, Undef) IN
         IF r.st = "throw" THEN r ELSE Ret(r.s, AsPromise(r.s, r.v))

\* an AsyncResult.andThen that calls fn whatever the result is
AsyncResult_andThen_then_always(s, fn, result) ==
    LET r == CallFn(s, fn, Field(s, result.a)) IN
    IF r.st = "throw" THEN r ELSE Ret(r.s, AsPromise(r.s, r.v))

\* AsyncResult.andThen:
\*   result => result.isOk() ? fn(result.intoOk()).asPromise()
\*                           : Result.err(result.unwrapErr())
AsyncResult_andThen_then(s, fn, result) ==
    IF Truthy(Result_isOk(s, result).v)
    THEN LET r == CallFn(s, fn, Ok_intoOk(s, result.a).v) IN
         IF r.st = "throw" THEN r ELSE Ret(r.s, AsPromise(r.s, r.v))
    ELSE LET e == Result_unwrapErr(s, result) IN
         IF e.st = "throw" THEN e ELSE Result_err(e.s, e.v)

\* AsyncResult.orElse:
\*   result => result.isErr() ? fn(result.intoErr()).asPromise() : result
AsyncResult_orElse_then(s, fn, result) ==
    IF Truthy(Result_isErr(s, result).v)
    THEN LET r == CallFn(s, fn, Err_intoErr(s, result.a).v) IN
         IF r.st = "throw" THEN r ELSE Ret(r.s, AsPromise(r.s, r.v))
    ELSE Ret(s, result)

\* an unwrapAnd that does not wait for the other operand when the first
\* one decides the outcome of or / and
UnwrapAnd_then_shortcut(s, c, other, option) ==
    IF \/ c.m = "or" /\ Tag(s, option) = "Some"
       \/ c.m = "and" /\ Tag(s, option) = "None"
    THEN Ret(s, option)
    ELSE Then(s, AsPromise(s, WrapperRef(other)).a, Handler("unwrapAndInner", c, 0, option))

\* unwrapAnd, the function given to this.promise.then:
\*   option => other.asPromise().then(otherOption => fn(option, otherOption))
UnwrapAnd_then(s, c, other, option) ==
    Then(s, AsPromise(s, WrapperRef(other)).a, Handler("unwrapAndInner", c, 0, option))

\* an unwrapAnd that hands the two containers to fn the other way round
UnwrapAnd_inner_swapped(s, c, option, otherOption) ==
    Invoke(s, otherOption.a, [c EXCEPT !.x = option])

\* unwrapAnd, the function given to other.asPromise().then, with fn one of
\*   (a, b) => a.and(b), a.or(b), a.xor(b), a.zip(b), a.zipWith(b, fn)
UnwrapAnd_inner(s, c, option, otherOption) ==
    Invoke(s, option.a, [c EXCEPT !.x = otherOption])

\* running the function a method gave to then(), on the value v the
\* promise was fulfilled with
RunHandler(s, h, v) ==
    CASE h.kind = "delegate" -> Invoke(s, v.a, h.c)
      [] h.kind = "transform" -> CallFn(s, h.c.f, v)
      [] h.kind = "AsyncOption.andThen" -> AsyncOption_andThen_then(s, h.c.f, v)
      [] h.kind = "AsyncOption.orElse" -> AsyncOption_orElse_then(s, h.c.f, v)
      [] h.kind = "AsyncResult.andThen" -> AsyncResult_andThen_then(s, h.c.f, v)
      [] h.kind = "AsyncResult.orElse" -> AsyncResult_orElse_then(s, h.c.f, v)
      [] h.kind = "unwrapAnd" -> UnwrapAnd_then(s, h.c, h.other, v)
      [] h.kind = "unwrapAndInner" -> UnwrapAnd_inner(s, h.c, h.first, v)

\* the promise of wrapper self
PromiseOf(s, self) == s.wrappers[self].promise

\* private unwrapAnd(other, fn) of both classes
AsyncOption_unwrapAnd(s, self, c) ==
    LET r == Then(s, PromiseOf(s, self), Handler("unwrapAnd", c, c.x.a, Undef)) IN
    NewWrapper(r.s, "AsyncOption", r.v)
AsyncResult_unwrapAnd(s, self, c) ==
    LET r == Then(s, PromiseOf(s, self), Handler("unwrapAnd", c, c.x.a, Undef)) IN
    NewWrapper(r.s, "AsyncResult", r.v)


\* a combinator that runs its handler during the call when the promise of
\* the receiver is fulfilled already
Derive_eager(s, self, cls, kind, c) ==
    IF s.promises[PromiseOf(s, self)].state # "fulfilled"
    THEN Only({NewWrapper(r.s, cls, r.v) :
                 r \in {Then(s, PromiseOf(s, self), Handler(kind, c, 0, Undef))}})
    ELSE Only({IF out.st = "throw"
               THEN NewWrapper([out.s EXCEPT !.promises =
                                    Append(@, Rejected(Undef, out.cls, out.msg))],
                               cls, PromiseRef(Len(out.s.promises) + 1))
               ELSE IF out.v.k = "promise" THEN NewWrapper(out.s, cls, out.v)
               ELSE Only({NewWrapper(r.s, cls, r.v) : r \in {Promise_resolve(out.s, out.v)}}) :
                 out \in {RunHandler(s, Handler(kind, c, 0, Undef),
                                     s.promises[PromiseOf(s, self)].value)}})

\* new AsyncX(this.promise.then(handler)): the wrapper a combinator returns
Derive(s, self, cls, kind, c) ==
    LET r == Then(s, PromiseOf(s, self), Handler(kind, c, 0, Undef)) IN
    NewWrapper(r.s, cls, r.v)

\* the methods of AsyncOption; those of the form
\*   this.promise.then(option => option.m(...))
\* by what they wrap the new promise in
AsyncOption_call(s, self, c) ==
    CASE c.m \in {"and", "or", "xor", "zip", "zipWith"} -> AsyncOption_unwrapAnd(s, self, c)
      [] c.m = "andThen" -> Derive(s, self, "AsyncOption", "AsyncOption.andThen", c)
      [] c.m = "orElse" -> Derive(s, self, "AsyncOption", "AsyncOption.orElse", c)
      [] c.m = "transform" -> Derive(s, self, "AsyncOption", "transform", c)
      [] c.m \in {"filter", "map", "mapOr", "mapOrElse"} ->
            Derive(s, self, "AsyncOption", "delegate", c)
      [] c.m \in {"okOr", "okOrElse"} -> Derive(s, self, "AsyncResult", "delegate", c)
      [] c.m = "asPromise" -> Ret(s, AsPromise(s, WrapperRef(self)))
      [] c.m \in {"contains", "expect", "isNone", "isSome", "iter", "unwrap",
                  "unwrapOr", "unwrapOrElse"} ->
            Then(s, PromiseOf(s, self), Handler("delegate", c, 0, Undef))

\* the methods of AsyncResult
AsyncResult_call(s, self, c) ==
    CASE c.m \in {"and", "or"} -> AsyncResult_unwrapAnd(s, self, c)
      [] c.m = "andThen" -> Derive(s, self, "AsyncResult", "AsyncResult.andThen", c)
      [] c.m = "orElse" -> Derive(s, self, "AsyncResult", "AsyncResult.orElse", c)
      [] c.m = "transform" -> Derive(s, self, "AsyncResult", "transform", c)
      [] c.m \in {"map", "mapErr"} -> Derive(s, self, "AsyncResult", "delegate", c)
      [] c.m \in {"err", "ok"} -> Derive(s, self, "AsyncOption", "delegate", c)
      [] c.m = "asPromise" -> Ret(s, AsPromise(s, WrapperRef(self)))
      [] c.m \in {"contains", "containsErr", "expect", "expectErr", "isErr", "isOk",
                  "iter", "mapOr", "mapOrElse", "unwrap", "unwrapErr", "unwrapOr",
                  "unwrapOrElse"} ->
            Then(s, PromiseOf(s, self), Handler("delegate", c, 0, Undef))

\* wrapper.m(...): the method of the wrapper's class
AsyncInvoke(s, self, c) ==
    IF s.wrappers[self].cls = "AsyncOption"
    THEN AsyncOption_call(s, self, c) ELSE AsyncResult_call(s, self, c)


(* ============================= state ================================== *)
VARIABLES
    heap,      \* the objects allocated so far; an object's index is its identity
    last,      \* the last synchronous call: receiver, arguments and outcome
    promises,  \* every promise: its state and value or rejection reason
    reacts,    \* reactions registered on pending promises
    queue,     \* the microtask queue
    wrappers,  \* the AsyncOption / AsyncResult instances
    subs,      \* the promises then() was called on
    trace,     \* user callbacks invoked by jobs: the promise the job settles, the call
    made       \* the combinator calls made on wrappers: receiver, call, returned value

vars == <<heap, last, promises, reacts, queue, wrappers, subs, trace, made>>
asyncVars == <<promises, reacts, queue, wrappers, subs, trace, made>>

NoCall == [self |-> 0, c |-> NoArg, st |-> "", v |-> Undef, cls |-> "", msg |-> "",
           calls |-> << >>]

IsOption(h, i) == h[i].tag \in {"Some", "None"}
IsResult(h, i) == h[i].tag \in {"Ok", "Err"}
Options(h) == {Ref(i) : i \in {j \in DOMAIN h : IsOption(h, j)}}
Results(h) == {Ref(i) : i \in {j \in DOMAIN h : IsResult(h, j)}}

(* ------------------------- the calls a caller makes ------------------- *)
\* calls that exist with the same arguments on Option and AsyncOption
OptionPlainCalls ==
    {Call(m, Undef, "", "", "") : m \in {"isNone", "isSome", "iter", "unwrap"}}
    \cup {Call("contains", x, "", "", "") : x \in Nums}
    \cup {Call(m, Num(0), "", "", "") : m \in {"okOr", "unwrapOr"}}
    \cup {Call("mapOr", Num(0), "", "next", "")}
    \cup {Call("expect", Undef, "", "", Messages[i]) : i \in DOMAIN Messages}
    \cup {Call("filter", Undef, f, "", "") : f \in {"isZero", "boom"}}
    \cup {Call("map", Undef, f, "", "") : f \in {"id", "next", "boom"}}
    \cup {Call("mapOrElse", Undef, f, "next", "") : f \in {"zero", "boom"}}
    \cup {Call(m, Undef, "zero", "", "") : m \in {"okOrElse", "unwrapOrElse"}}

OptionCalls(h) ==
    OptionPlainCalls
    \cup {Call(m, x, "", "", "") : m \in {"and", "or", "xor", "zip"}, x \in Options(h)}
    \cup {Call("zipWith", x, f, "", "") : x \in Options(h), f \in {"snd", "boom"}}
    \cup {Call("andThen", Undef, f, "", "") : f \in {"some", "none", "boom"}}
    \cup {[Call("andThen", Undef, "", "", "") EXCEPT !.f = Closure("andThenOf", FnVal(f), g)] :
            f \in {"some", "none", "boom"}, g \in {"some", "none", "boom"}}
    \cup {Call("orElse", Undef, f, "", "") : f \in {"none", "boom"}}
    \cup {Call("apply", Undef, "id", "", "")}

\* calls that exist with the same arguments on Result and AsyncResult
ResultPlainCalls ==
    {Call(m, Undef, "", "", "") :
        m \in {"err", "ok", "isErr", "isOk", "iter", "unwrap", "unwrapErr"}}
    \cup {Call(m, x, "", "", "") : m \in {"contains", "containsErr"}, x \in Nums}
    \cup {Call("unwrapOr", Num(0), "", "", "")}
    \cup {Call("mapOr", Num(0), "", "next", "")}
    \cup {Call(m, Undef, "", "", Messages[i]) : m \in {"expect", "expectErr"}, i \in DOMAIN Messages}
    \cup {Call(m, Undef, f, "", "") : m \in {"map", "mapErr"}, f \in {"next", "boom"}}
    \cup {Call("mapOrElse", Undef, f, "next", "") : f \in {"next", "boom"}}
    \cup {Call("unwrapOrElse", Undef, "next", "", "")}

ResultCalls(h) ==
    ResultPlainCalls
    \cup {Call(m, x, "", "", "") : m \in {"and", "or"}, x \in Results(h)}
    \cup {Call(m, Undef, f, "", "") : m \in {"andThen", "orElse"}, f \in {"ok", "err", "boom"}}
    \cup {Call("apply", Undef, "id", "", "")}
    \cup {Call("intoOkOrError", Undef, "", "", "")}

\* the wrappers of class cls other than the receiver: the arguments of a
\* binary combinator, and what a callback written as () => other returns
Others(ws, cls) == IF Len(ws) >= 2 /\ ws[2].cls = cls THEN {WrapperRef(2)} ELSE {}

AsyncOptionCalls(ws) ==
    OptionPlainCalls
    \cup {Call(m, x, "", "", "") : m \in {"and", "or", "xor", "zip"}, x \in Others(ws, "AsyncOption")}
    \cup {Call("zipWith", x, f, "", "") : x \in Others(ws, "AsyncOption"), f \in {"snd", "boom"}}
    \cup {Call(m, Undef, f, "", "") : m \in {"andThen", "orElse"},
                                      f \in {"asyncSome", "asyncNone", "boom"}}
    \cup {Call(m, Undef, "other", "", "") : m \in {"andThen", "orElse"},
                                            x \in Others(ws, "AsyncOption")}
    \cup {Call("transform", Undef, f, "", "") : f \in {"id", "none", "boom"}}

AsyncResultCalls(ws) ==
    ResultPlainCalls
    \cup {Call(m, x, "", "", "") : m \in {"and", "or"}, x \in Others(ws, "AsyncResult")}
    \cup {Call(m, Undef, f, "", "") : m \in {"andThen", "orElse"},
                                      f \in {"asyncOk", "asyncErr", "boom"}}
    \cup {Call(m, Undef, "other", "", "") : m \in {"andThen", "orElse"},
                                            x \in Others(ws, "AsyncResult")}
    \cup {Call("transform", Undef, f, "", "") : f \in {"id", "err", "boom"}}

(* ====================== synchronous containers ======================== *)
Record(self, c, out) ==
    [self |-> self, c |-> c, st |-> out.st, v |-> out.v, cls |-> out.cls,
     msg |-> out.msg, calls |-> out.s.calls]

SyncInit ==
    /\ heap = << >> /\ last = NoCall
    /\ promises = << >> /\ reacts = << >> /\ queue = << >> /\ wrappers = << >>
    /\ subs = {} /\ trace = << >> /\ made = << >>

\* Option.some(v), Option.none(), Result.ok(v), Result.err(e)
SyncNew ==
    /\ Len(heap) < MaxHeap
    /\ \E c \in {Call(m, x, "", "", "") : m \in {"some", "ok", "err"}, x \in Nums}
                \cup {Call("none", Undef, "", "", "")} :
         \E s \in {[heap |-> heap, calls |-> << >>]} :
         \E out \in {CASE c.m = "some" -> Option_some(s, c.x)
                       [] c.m = "none" -> Option_none(s)
                       [] c.m = "ok" -> Result_ok(s, c.x)
                       [] c.m = "err" -> Result_err(s, c.x)} :
            /\ heap' = out.s.heap
            /\ last' = Record(0, c, out)
    /\ UNCHANGED asyncVars

\* option.m(...) on an Option allocated earlier
SyncOptionCall ==
    /\ \E self \in DOMAIN heap : \E c \in OptionCalls(heap) :
        /\ IsOption(heap, self)
        /\ Len(heap) <= MaxHeap
        /\ \E out \in {Invoke([heap |-> heap, calls |-> << >>], self, c)} :
            /\ heap' = out.s.heap
            /\ last' = Record(self, c, out)
    /\ UNCHANGED asyncVars

\* result.m(...) on a Result allocated earlier
SyncResultCall ==
    /\ \E self \in DOMAIN heap : \E c \in ResultCalls(heap) :
        /\ IsResult(heap, self)
        /\ Len(heap) <= MaxHeap
        /\ \E out \in {Invoke([heap |-> heap, calls |-> << >>], self, c)} :
            /\ heap' = out.s.heap
            /\ last' = Record(self, c, out)
    /\ UNCHANGED asyncVars

SyncNext == SyncNew \/ SyncOptionCall \/ SyncResultCall

SpecSync == SyncInit /\ [][SyncNext]_vars

(* ========================= asynchronous runs ========================== *)
Store ==
    [heap |-> heap, calls |-> << >>, promises |-> promises, reacts |-> reacts,
     queue |-> queue, wrappers |-> wrappers, subs |-> subs]

\* the user callbacks a job invoked, with the promise the job settles
Tagged(d, calls) == [i \in DOMAIN calls |-> [d |-> d] @@ calls[i]]

Commit(s, d) ==
    /\ heap' = s.heap
    /\ promises' = s.promises
    /\ reacts' = s.reacts
    /\ queue' = s.queue
    /\ wrappers' = s.wrappers
    /\ subs' = s.subs
    /\ trace' = trace \o Tagged(d, s.calls)

Classes == {"AsyncOption", "AsyncResult"}
\* the reason the producer of source promise p rejects it with
Reasons == <<"r1", "r2">>

\* AsyncOption.fromPromiseOfOption(p1) and AsyncX.fromPromiseOfX(p2) on two
\* promises produced elsewhere: wrapper 1 is the receiver of the call
\* studied, wrapper 2 the other operand
Init ==
    /\ heap = << >> /\ last = NoCall
    /\ promises = <<Pending, Pending>>
    /\ \E ca \in Classes, cb \in Classes :
         wrappers = <<[cls |-> ca, promise |-> 1], [cls |-> cb, promise |-> 2]>>
    /\ reacts = << >> /\ queue = << >> /\ subs = {} /\ trace = << >> /\ made = << >>

\* what the producer of a source promise settles it with
Produce(s, cls, p) ==
    IF cls = "AsyncOption"
    THEN {Option_some(s, n) : n \in Nums} \cup {Option_none(s)}
    ELSE {Result_ok(s, n) : n \in Nums} \cup {Result_err(s, n) : n \in Nums}

\* a source promise is fulfilled with a container
FulfilSource ==
    /\ \E p \in {1, 2} :
        /\ promises[p].state = "pending"
        /\ \E r \in Produce(Store, wrappers[p].cls, p) :
             \E s \in {Settle(r.s, p, Fulfilled(r.v))} : Commit(s, 0)
    /\ UNCHANGED <<last, made>>

\* a source promise rejects
RejectSource ==
    /\ \E p \in {1, 2} :
        /\ promises[p].state = "pending"
        /\ \E s \in {Settle(Store, p, Rejected(Undef, "Reason", Reasons[p]))} : Commit(s, 0)
    /\ UNCHANGED <<last, made>>

\* wrapper1.m(...): one combinator call
MakeCall ==
    /\ made = << >>
    /\ \E c \in IF wrappers[1].cls = "AsyncOption"
                THEN AsyncOptionCalls(wrappers) ELSE AsyncResultCalls(wrappers) :
         \E out \in {AsyncInvoke(Store, 1, c)} :
            /\ Commit(out.s, 0)
            /\ made' = Append(made, [recv |-> 1, c |-> c, ret |-> out.v])
    /\ UNCHANGED last

\* a job that runs the handler on a rejected promise as well
JobStep_recover(s, job) ==
    LET p == s.promises[job.on] IN
    CASE job.job = "thenable" -> Subscribe(s, [job EXCEPT !.job = "reaction"])
      [] job.job = "reaction" /\ job.h.kind = "adopt" ->
            IF p.state = "fulfilled" THEN Resolve(s, job.d, p.value) ELSE Settle(s, job.d, p)
      [] job.job = "reaction" /\ job.h.kind # "adopt" /\ p.state = "rejected" ->
            Settle(Option_none(s).s, job.d, Fulfilled(Option_none(s).v))
      [] OTHER ->
            Only({IF out.st = "throw"
                  THEN Settle(out.s, job.d, Rejected(Undef, out.cls, out.msg))
                  ELSE Resolve(out.s, job.d, out.v) :
                    out \in {RunHandler(s, job.h, p.value)}})

\* a job that fulfils the derived promise with undefined when the handler
\* throws
JobStep_swallow(s, job) ==
    LET p == s.promises[job.on] IN
    CASE job.job = "thenable" -> Subscribe(s, [job EXCEPT !.job = "reaction"])
      [] job.job = "reaction" /\ job.h.kind = "adopt" ->
            IF p.state = "fulfilled" THEN Resolve(s, job.d, p.value) ELSE Settle(s, job.d, p)
      [] job.job = "reaction" /\ job.h.kind # "adopt" /\ p.state = "rejected" ->
            Settle(s, job.d, p)
      [] OTHER ->
            Only({IF out.st = "throw"
                  THEN Settle(out.s, job.d, Fulfilled(Undef))
                  ELSE Resolve(out.s, job.d, out.v) :
                    out \in {RunHandler(s, job.h, p.value)}})

\* the job at the head of the microtask queue
JobStep(s, job) ==
    LET p == s.promises[job.on] IN
    CASE job.job = "thenable" -> Subscribe(s, [job EXCEPT !.job = "reaction"])
      [] job.job = "reaction" /\ job.h.kind = "adopt" ->
            IF p.state = "fulfilled" THEN Resolve(s, job.d, p.value) ELSE Settle(s, job.d, p)
      [] job.job = "reaction" /\ job.h.kind # "adopt" /\ p.state = "rejected" ->
            Settle(s, job.d, p)
      [] OTHER ->
            Only({IF out.st = "throw"
                  THEN Settle(out.s, job.d, Rejected(Undef, out.cls, out.msg))
                  ELSE Resolve(out.s, job.d, out.v) :
                    out \in {RunHandler(s, job.h, p.value)}})

RunJob ==
    /\ queue # << >>
    /\ \E s \in {JobStep([Store EXCEPT !.queue = Tail(queue)], Head(queue))} :
         Commit(s, Head(queue).d)
    /\ UNCHANGED <<last, made>>

Next == FulfilSource \/ RejectSource \/ MakeCall \/ RunJob

Spec == Init /\ [][Next]_vars

(* ------------------- chains of calls on one wrapper ------------------- *)

\* the calls of a chain w.op1(f1).op2(f2)..., some with a callback that
\* throws, and the observers of one wrapper: asPromise() and
\* transform(x => x)
ChainCalls(ws, cls) ==
    {Call("map", Undef, "next", "", ""), Call("transform", Undef, "id", "", ""),
     Call("asPromise", Undef, "", "", "")}
    \cup {Call(m, Undef, "boom", "", "") : m \in {"map", "andThen"}}
    \cup {Call("andThen", Undef, IF cls = "AsyncOption" THEN "asyncSome" ELSE "asyncOk", "", "")}
    \cup {Call(m, Undef, "other", "", "") : m \in {"andThen", "orElse"}, x \in Others(ws, cls)}

\* the wrappers a chain goes on from: wrapper 1, or the wrapper the last
\* call returned
ChainReceivers ==
    {1} \cup {made[i].ret.a : i \in {j \in DOMAIN made : j = Len(made) /\ made[j].ret.k = "wrapper"}}

\* w.m(...) on wrapper 1 or on the wrapper the call before returned
ChainCall ==
    /\ Len(made) < MaxChain
    /\ \E self \in ChainReceivers : \E c \in ChainCalls(wrappers, wrappers[self].cls) :
         \E out \in {AsyncInvoke(Store, self, c)} :
            /\ Commit(out.s, 0)
            /\ made' = Append(made, [recv |-> self, c |-> c, ret |-> out.v])
    /\ UNCHANGED last

ChainNext == FulfilSource \/ RejectSource \/ ChainCall \/ RunJob

SpecChain == Init /\ [][ChainNext]_vars

(* ------------- chains of unary and binary calls, run fairly ----------- *)

\* the calls of a chain that mixes unary combinators, with callbacks that
\* return or throw, and binary ones whose other operand is wrapper 2
LiveCalls(ws, cls) ==
    {Call("map", Undef, f, "", "") : f \in {"next", "boom"}}
    \cup {Call("andThen", Undef, "other", "", "") : x \in Others(ws, cls)}
    \cup {Call(m, x, "", "", "") : m \in {"and", "or"}, x \in Others(ws, cls)}

\* w.m(...) on wrapper 1, then on the wrapper the call before returned
LiveCall ==
    /\ Len(made) < MaxChain
    /\ \E self \in {IF made = << >> THEN 1 ELSE made[Len(made)].ret.a} :
       \E c \in LiveCalls(wrappers, wrappers[self].cls) :
         \E out \in {AsyncInvoke(Store, self, c)} :
            /\ Commit(out.s, 0)
            /\ made' = Append(made, [recv |-> self, c |-> c, ret |-> out.v])
    /\ UNCHANGED last

LiveNext == FulfilSource \/ RejectSource \/ LiveCall \/ RunJob

\* the engine runs the microtask queue until it is empty, and the producer
\* of each source promise settles it in the end
SpecLive ==
    /\ Init /\ [][LiveNext]_vars
    /\ WF_vars(RunJob) /\ WF_vars(FulfilSource \/ RejectSource)

(* ============ nested containers and the namespace functions =========== *)
(* A run builds containers that may hold containers built before, then     *)
(* applies flatten or transpose to one of them, and again to what that     *)
(* returned; made is the list of the applications.                         *)

\* the arguments the signature of namespace function fn admits:
\* Option<Option<T>>, Option<Result<T, E>>, Result<Result<T, E>, E> and
\* Result<Option<T>, E>
Arguments(h, fn) ==
    {Ref(i) : i \in {j \in DOMAIN h :
        CASE fn = "Option.flatten" ->
               \/ h[j].tag = "None"
               \/ h[j].tag = "Some" /\ Tag([heap |-> h], h[j].fields[1]) \in {"Some", "None"}
          [] fn = "Option.transpose" ->
               \/ h[j].tag = "None"
               \/ h[j].tag = "Some" /\ Tag([heap |-> h], h[j].fields[1]) \in {"Ok", "Err"}
          [] fn = "Result.flatten" ->
               \/ h[j].tag = "Err"
               \/ h[j].tag = "Ok" /\ Tag([heap |-> h], h[j].fields[1]) \in {"Ok", "Err"}
          [] fn = "Result.transpose" ->
               \/ h[j].tag = "Err"
               \/ h[j].tag = "Ok" /\ Tag([heap |-> h], h[j].fields[1]) \in {"Some", "None"}}}

\* Option.some(x), Option.none(), Result.ok(x), Result.err(x), where x is a
\* number or a container built before, and Option.fromOptional(x), where x
\* may also be null, undefined, the empty string or false
NestNew ==
    /\ Len(heap) < MaxNest /\ made = << >>
    /\ \E c \in {Call(m, x, "", "", "") : m \in {"some", "ok", "err"},
                        x \in Nums \cup {Ref(i) : i \in DOMAIN heap}}
                \cup {Call("none", Undef, "", "", "")}
                \cup {Call("fromOptional", x, "", "", "") :
                        x \in Nums \cup {Ref(i) : i \in DOMAIN heap}
                              \cup {Null, Undef, EmptyString, Bool(FALSE)}} :
         \E s \in {[heap |-> heap, calls |-> << >>]} :
         \E out \in {CASE c.m = "some" -> Option_some(s, c.x)
                       [] c.m = "fromOptional" -> Option_fromOptional(s, c.x)
                       [] c.m = "none" -> Option_none(s)
                       [] c.m = "ok" -> Result_ok(s, c.x)
                       [] c.m = "err" -> Result_err(s, c.x)} :
            /\ heap' = out.s.heap
            /\ last' = Record(0, c, out)
    /\ UNCHANGED asyncVars

\* Option.flatten(x), Option.transpose(x), Result.flatten(x) or
\* Result.transpose(x) on a container of the type the function takes: any
\* container for the first application, the one returned by the application
\* before for the next ones
NestCall ==
    /\ Len(made) < MaxChain
    /\ \E fn \in {"Option.flatten", "Option.transpose", "Result.flatten",
                   "Result.transpose"} :
         \E x \in Arguments(heap, fn) :
         \E s \in {[heap |-> heap, calls |-> << >>]} :
         (made # << >> => x = made[Len(made)].ret) /\
         \E out \in {CASE fn = "Option.flatten" -> Option_flatten(s, x)
                       [] fn = "Option.transpose" -> Option_transpose(s, x)
                       [] fn = "Result.flatten" -> Result_flatten(s, x)
                       [] fn = "Result.transpose" -> Result_transpose(s, x)} :
            /\ heap' = out.s.heap
            /\ last' = Record(0, Call(fn, x, "", "", ""), out)
            /\ made' = Append(made, [recv |-> 0, c |-> Call(fn, x, "", "", ""),
                                     ret |-> out.v])
    /\ UNCHANGED <<promises, reacts, queue, wrappers, subs, trace>>

NestNext == NestNew \/ NestCall

SpecNested == SyncInit /\ [][NestNext]_vars

(* ================= properties of the synchronous containers ============ *)

\* the receiver of the last call, as it is now
Receiver == heap[last.self]
\* the last call was made on an Option / on a Result
OnOption == last.self # 0 /\ IsOption(heap, last.self)
OnResult == last.self # 0 /\ IsResult(heap, last.self)
\* no callback given to the last call throws
NonThrowing ==
    /\ last.c.f.f # "boom" /\ last.c.g.f # "boom"
    /\ last.c.f.f = "andThenOf" => (last.c.f.g # "boom" /\ last.c.f.env # FnVal("boom"))

\* error classes: `e instanceof k`, every class here extends Error directly
InstanceOf(cls, k) == cls = k \/ (cls # "" /\ k = "Error")

\* C7: whatever operation is applied, every container that exists keeps the
\* variant and the payload it was constructed with; operations only add
\* containers.
C7_Frame ==
    [][/\ Len(heap') >= Len(heap)
       /\ \A i \in DOMAIN heap : heap'[i] = heap[i]]_vars

\* C7: a Some whose filter predicate failed: the call returned a None that
\* is another object, and the receiver is still a Some
C7_Witness ==
    /\ OnOption /\ last.c.m = "filter" /\ last.st = "return"
    /\ Receiver.tag = "Some"
    /\ Tag([heap |-> heap], last.v) = "None"
    /\ last.v # Ref(last.self)

C10_TwoFailureKinds ==
    OnResult =>
        /\ last.c.m \in {"unwrap", "expect"} =>
              IF Receiver.tag = "Err"
              THEN /\ last.st = "throw"
                   /\ InstanceOf(last.cls, "EmptyResultError")
                   /\ ~InstanceOf(last.cls, "UnwrapOkError")
                   /\ last.c.m = "expect" => last.msg = last.c.msg
              ELSE last.st = "return" /\ last.v = Receiver.fields[1]
        /\ last.c.m \in {"unwrapErr", "expectErr"} =>
              IF Receiver.tag = "Ok"
              THEN /\ last.st = "throw"
                   /\ InstanceOf(last.cls, "UnwrapOkError")
                   /\ ~InstanceOf(last.cls, "EmptyResultError")
                   /\ last.c.m = "expectErr" => last.msg = last.c.msg
              ELSE last.st = "return" /\ last.v = Receiver.fields[1]

\* C10: ok.expectErr("m1") has thrown an UnwrapOkError carrying "m1"
C10_Witness ==
    /\ OnResult /\ Receiver.tag = "Ok" /\ last.c.m = "expectErr"
    /\ last.st = "throw" /\ last.cls = "UnwrapOkError" /\ last.msg = "m1"

\* the class of the value the last call returned, and of its argument
ReturnedTag == Tag([heap |-> heap], last.v)
ArgTag == Tag([heap |-> heap], last.c.x)

\* C15: a.xor(b) is a Some exactly when one of a, b is a Some and the other
\* a None, and it is then that operand itself (a when a is the Some, b when
\* a is the None); it is a None when both are Some or both are None.
C15_XorExactlyOne ==
    (OnOption /\ last.c.m = "xor") =>
        /\ last.st = "return"
        /\ ReturnedTag \in {"Some", "None"}
        /\ ReturnedTag = "Some" <=> (Receiver.tag = "Some") # (ArgTag = "Some")
        /\ (Receiver.tag = "Some" /\ ArgTag = "None") => last.v = Ref(last.self)
        /\ (Receiver.tag = "None" /\ ArgTag = "Some") => last.v = last.c.x

\* C15: xor of two different Some objects returned a None
C15_Witness ==
    /\ OnOption /\ last.c.m = "xor" /\ last.c.x # Ref(last.self)
    /\ Receiver.tag = "Some" /\ ArgTag = "Some"
    /\ last.st = "return" /\ ReturnedTag = "None"

\* the payload of the container the last call returned
ReturnedField == Field([heap |-> heap], last.v.a)

\* C16: a.zip(b) is a Some of the pair [x, y] exactly when a is Some(x) and
\* b is Some(y), and a None otherwise; a.zipWith(b, f) is then Some(f(x, y)),
\* f being called once with x and y, and a None otherwise, f not being
\* called at all.
C16_ZipBothOrNone ==
    (OnOption /\ last.c.m \in {"zip", "zipWith"}) =>
        IF Receiver.tag = "Some" /\ ArgTag = "Some"
        THEN /\ last.c.m = "zip" =>
                  /\ last.st = "return" /\ ReturnedTag = "Some"
                  /\ Tag([heap |-> heap], ReturnedField) = "Array"
                  /\ heap[ReturnedField.a].fields =
                        <<Receiver.fields[1], heap[last.c.x.a].fields[1]>>
             /\ last.c.m = "zipWith" =>
                  /\ Len(last.calls) = 1
                  /\ last.calls[1].f = last.c.f.f
                  /\ last.calls[1].x = Receiver.fields[1]
                  /\ last.c.f.f = "snd" =>
                        /\ last.calls[1].v = heap[last.c.x.a].fields[1]
                        /\ last.st = "return" /\ ReturnedTag = "Some"
                        /\ ReturnedField = last.calls[1].v
        ELSE /\ last.st = "return" /\ ReturnedTag = "None"
             /\ last.calls = << >>

\* C16: Some(1).zipWith(Some(0), (x, y) => y) returned Some(0) after one call
\* of the callback
C16_Witness ==
    /\ OnOption /\ last.c.m = "zipWith" /\ last.c.f.f = "snd"
    /\ Receiver = [tag |-> "Some", fields |-> <<Num(1)>>]
    /\ ArgTag = "Some" /\ heap[last.c.x.a].fields = <<Num(0)>>
    /\ Len(last.calls) = 1
    /\ ReturnedTag = "Some" /\ ReturnedField = Num(0)

\* C16: Some.zipWith on a None argument returned a None without calling the
\* callback
C16_WitnessNone ==
    /\ OnOption /\ last.c.m = "zipWith" /\ Receiver.tag = "Some"
    /\ ArgTag = "None" /\ ReturnedTag = "None" /\ last.calls = << >>

\* C17: filter with a predicate that does not throw returns the receiver
\* itself, the same object, when it is a Some whose value satisfies the
\* predicate; a None when the value does not; and a None, without calling
\* the predicate, when the receiver is a None.
C17_FilterKeepsReceiver ==
    (OnOption /\ last.c.m = "filter" /\ NonThrowing) =>
        /\ last.st = "return"
        /\ IF Receiver.tag = "Some"
           THEN /\ Len(last.calls) = 1
                /\ last.calls[1].x = Receiver.fields[1]
                /\ IF Truthy(last.calls[1].v)
                   THEN last.v = Ref(last.self)
                   ELSE ReturnedTag = "None"
           ELSE ReturnedTag = "None" /\ last.calls = << >>

\* C17: Some(0).filter(x => x === 0) returned the receiver
C17_Witness ==
    /\ OnOption /\ last.c.m = "filter" /\ last.c.f.f = "isZero"
    /\ Receiver = [tag |-> "Some", fields |-> <<Num(0)>>]
    /\ last.calls # << >> /\ last.v = Ref(last.self)

C18_WitnessNone ==
    /\ OnOption /\ last.c.m = "mapOr" /\ Receiver.tag = "None"
    /\ ReturnedTag = "Some" /\ ReturnedField = Num(0)

\* C20: opt.map(x => x) returns a container equal to opt: of the same
\* variant and, for a Some, with the same payload.
C20_MapIdentity ==
    (OnOption /\ last.c.m = "map" /\ last.c.f.f = "id") =>
        /\ last.st = "return"
        /\ ReturnedTag = Receiver.tag
        /\ heap[last.v.a].fields = Receiver.fields

\* C20: Some(1).map(x => x) returned another Some object holding 1
C20_Witness ==
    /\ OnOption /\ last.c.m = "map" /\ last.c.f.f = "id"
    /\ Receiver = [tag |-> "Some", fields |-> <<Num(1)>>]
    /\ last.v # Ref(last.self) /\ heap[last.v.a] = Receiver

(* ================= properties of the asynchronous wrappers ============= *)

\* the combinator call made on wrapper 1, and the promise it returned, or
\* the promise of the wrapper it returned
Made == made # << >>
TheCall == made[1].c
Derived ==
    IF made[1].ret.k = "wrapper" THEN wrappers[made[1].ret.a].promise ELSE made[1].ret.a
Binary == Made /\ TheCall.m \in {"and", "or", "xor", "zip", "zipWith"}
Pends(p) == promises[p].state = "pending"

\* C1: after a binary combinator call on two wrappers, the promise of the
\* combined wrapper is pending as long as the promise of either operand is.
C1_WaitsForBoth ==
    (Binary /\ ~Pends(Derived)) => (~Pends(1) /\ ~Pends(2))

\* C1: the part that the code keeps: the combined promise is never fulfilled
\* while an operand is pending
C1_FulfilsAfterBoth ==
    (Binary /\ promises[Derived].state = "fulfilled") => (~Pends(1) /\ ~Pends(2))

\* C1: the receiver rejected and the combined promise has rejected while
\* the promise of the other operand is still pending
C1_Witness ==
    /\ Binary /\ promises[1].state = "rejected" /\ Pends(2)
    /\ promises[Derived].state = "rejected"

\* C2: once both operands of a binary combinator are settled and nothing
\* is left to run, the combinator has called then() on the promise of every
\* operand that rejected.
C2_SubscribesToRejected ==
    (Binary /\ queue = << >> /\ ~Pends(1) /\ ~Pends(2)) =>
        \A p \in {1, 2} : promises[p].state = "rejected" => p \in subs

\* C2: both operands rejected, nothing is left to run, and then() was
\* never called on the promise of the second operand
C2_Witness ==
    /\ Binary /\ queue = << >>
    /\ promises[1].state = "rejected" /\ promises[2].state = "rejected"
    /\ 2 \notin subs /\ reacts = << >>

\* C3: when the promise of the receiver rejected, the promise derived by a
\* combinator call does not fulfil; once the jobs have run it is rejected,
\* with the receiver's reason, and no callback has been invoked.
C3_RejectionPropagates ==
    (Made /\ promises[1].state = "rejected") =>
        /\ promises[Derived].state # "fulfilled"
        /\ queue = << >> => promises[Derived].state = "rejected"
        /\ promises[Derived].state = "rejected" =>
              /\ promises[Derived].cls = "Reason"
              /\ promises[Derived].msg = Reasons[1]
        /\ trace = << >>

\* C3: the receiver rejected with r1 and the promise of the wrapper that
\* andThen returned has rejected with r1
C3_Witness ==
    /\ Made /\ TheCall.m = "andThen" /\ promises[1].state = "rejected"
    /\ promises[Derived].state = "rejected" /\ promises[Derived].msg = "r1"

\* equality of two values up to the identity of the containers: the same
\* variant with equal payloads (toEqual of the tests)
RECURSIVE DeepEq(_, _, _, _)
DeepEq(h1, v1, h2, v2) ==
    IF v1.k = "ref" /\ v2.k = "ref"
    THEN /\ h1[v1.a].tag = h2[v2.a].tag
         /\ Len(h1[v1.a].fields) = Len(h2[v2.a].fields)
         /\ \A i \in DOMAIN h1[v1.a].fields :
               DeepEq(h1, h1[v1.a].fields[i], h2, h2[v2.a].fields[i])
    ELSE v1 = v2

\* the synchronous counterpart of an asynchronous call: a wrapper argument
\* is replaced by the container its promise was fulfilled with, a callback
\* returning a wrapper by the callback returning that wrapper's container
MirrorFn(fn) ==
    CASE fn.f = "asyncSome" -> Fn("some")
      [] fn.f = "asyncNone" -> Fn("none")
      [] fn.f = "asyncOk" -> Fn("ok")
      [] fn.f = "asyncErr" -> Fn("err")
      [] fn.f = "other" -> Closure("const", promises[2].value, "")
      [] OTHER -> fn
MirrorCall(c) ==
    [c EXCEPT !.x = IF c.x.k = "wrapper" THEN promises[wrappers[c.x.a].promise].value ELSE c.x,
              !.f = MirrorFn(c.f)]
UsesOther(c) == c.x.k = "wrapper" \/ c.f.f = "other"

\* C4: when the operands' promises are fulfilled and the promise returned
\* by a combinator that exists on the synchronous type is settled, it is
\* settled as the synchronous combinator on the settled containers ends:
\* fulfilled with an equal value, or rejected with the error it throws.
C4_MirrorLaw ==
    (/\ Made /\ TheCall.m # "transform"
     /\ promises[1].state = "fulfilled"
     /\ UsesOther(TheCall) => promises[2].state = "fulfilled"
     /\ ~Pends(Derived)) =>
        \E out \in {Invoke(Store, promises[1].value.a, MirrorCall(TheCall))} :
            IF out.st = "throw"
            THEN /\ promises[Derived].state = "rejected"
                 /\ promises[Derived].cls = out.cls
                 /\ promises[Derived].msg = out.msg
            ELSE /\ promises[Derived].state = "fulfilled"
                 /\ DeepEq(heap, promises[Derived].value, out.s.heap, out.v)

\* C4: some(n).zip(none) on wrappers, both fulfilled: the promise of the
\* returned wrapper is fulfilled with a None
C4_Witness ==
    /\ Made /\ TheCall.m = "zip"
    /\ promises[1].state = "fulfilled" /\ promises[2].state = "fulfilled"
    /\ Tag(Store, promises[1].value) = "Some" /\ Tag(Store, promises[2].value) = "None"
    /\ promises[Derived].state = "fulfilled"
    /\ Tag(Store, promises[Derived].value) = "None"

\* the four unwrapping methods of the wrappers
Unwrapping == {"unwrap", "expect", "unwrapErr", "expectErr"}

\* what a promise returned by unwrapping call c settles to when the source
\* is fulfilled with a container of class tag holding payload: a record of
\* the state, and the value or the class of the error
Unwrapped(tag, payload, c) ==
    CASE tag = "Some" -> [state |-> "fulfilled", value |-> payload]
      [] tag = "None" -> [state |-> "rejected", cls |-> "UnwrapNoneError"]
      [] tag = "Ok" /\ c.m \in {"unwrap", "expect"} ->
            [state |-> "fulfilled", value |-> payload]
      [] tag = "Err" /\ c.m \in {"unwrap", "expect"} ->
            [state |-> "rejected", cls |-> "EmptyResultError"]
      [] tag = "Ok" -> [state |-> "rejected", cls |-> "UnwrapOkError"]
      [] tag = "Err" -> [state |-> "fulfilled", value |-> payload]

\* C11: unwrap, expect, unwrapErr and expectErr on a wrapper return a promise
\* (the call itself never throws, whatever the state of the source); once
\* the source is fulfilled and the returned promise settled, it is fulfilled
\* with the payload of a Some or an Ok (of an Err, for unwrapErr and
\* expectErr), rejected with UnwrapNoneError on a None, with
\* EmptyResultError on an Err and, for unwrapErr and expectErr, with
\* UnwrapOkError on an Ok.
C11_UnwrapSettlesPromise ==
    (Made /\ TheCall.m \in Unwrapping) =>
        /\ made[1].ret.k = "promise"
        /\ (promises[1].state = "fulfilled" /\ ~Pends(Derived)) =>
              \E exp \in {Unwrapped(Tag(Store, promises[1].value),
                                    Field(Store, promises[1].value.a), TheCall)} :
                  /\ promises[Derived].state = exp.state
                  /\ exp.state = "fulfilled" => promises[Derived].value = exp.value
                  /\ exp.state = "rejected" => promises[Derived].cls = exp.cls

\* C11: unwrap on a wrapper whose source is fulfilled with a None: the
\* returned promise is rejected with UnwrapNoneError
C11_Witness ==
    /\ Made /\ TheCall.m = "unwrap"
    /\ promises[1].state = "fulfilled"
    /\ Tag(Store, promises[1].value) = "None"
    /\ promises[Derived].state = "rejected"
    /\ promises[Derived].cls = "UnwrapNoneError"

\* C11: expectErr on a wrapper of an Ok: the returned promise is rejected
\* with UnwrapOkError
C11_WitnessOk ==
    /\ Made /\ TheCall.m = "expectErr"
    /\ promises[1].state = "fulfilled"
    /\ Tag(Store, promises[1].value) = "Ok"
    /\ promises[Derived].state = "rejected"
    /\ promises[Derived].cls = "UnwrapOkError"

(* ============ synchronous and asynchronous runs together =============== *)

\* a run is a run of calls on containers or a run of a call on wrappers
AllInit == SyncInit \/ Init
AllNext == (wrappers = << >> /\ SyncNext) \/ (wrappers # << >> /\ Next)
SpecAll == AllInit /\ [][AllNext]_vars

\* the methods of Option and Result that return a container
Combinators ==
    {"and", "andThen", "filter", "map", "mapErr", "mapOr", "mapOrElse", "okOr",
     "okOrElse", "or", "orElse", "xor", "zip", "zipWith", "ok", "err"}

\* where the container returned by combinator c on receiver self comes from:
\* the receiver itself ("this"), the argument ("arg"), what the callback
\* returned ("fn"), or an allocation by the method ("new")
Origin(h, self, c, calls) ==
    LET tag == h[self].tag
        argSome == Tag([heap |-> h], c.x) = "Some"
    IN CASE tag = "Some" ->
              (CASE c.m = "and" -> "arg"
                 [] c.m = "andThen" -> "fn"
                 [] c.m = "filter" -> IF Truthy(calls[1].v) THEN "this" ELSE "new"
                 [] c.m \in {"or", "orElse"} -> "this"
                 [] c.m = "xor" -> IF argSome THEN "new" ELSE "this"
                 [] c.m \in {"zip", "zipWith"} -> IF argSome THEN "new" ELSE "arg"
                 [] OTHER -> "new")
         [] tag = "None" ->
              (CASE c.m \in {"and", "andThen", "filter", "map", "zip", "zipWith"} -> "this"
                 [] c.m \in {"or", "xor"} -> "arg"
                 [] c.m = "orElse" -> "fn"
                 [] OTHER -> "new")
         [] tag = "Ok" ->
              (CASE c.m = "and" -> "arg"
                 [] c.m = "andThen" -> "fn"
                 [] c.m \in {"mapErr", "or", "orElse"} -> "this"
                 [] OTHER -> "new")
         [] tag = "Err" ->
              (CASE c.m \in {"and", "andThen", "map"} -> "this"
                 [] c.m = "or" -> "arg"
                 [] c.m = "orElse" -> "fn"
                 [] OTHER -> "new")

\* C8, as stated: the container or wrapper a combinator returns is neither
\* the receiver nor an argument of the call.
C8_NeverReceiverNorArgument ==
    /\ (last.self # 0 /\ last.st = "return" /\ last.c.m \in Combinators
            /\ last.v.k = "ref") =>
          (last.v # Ref(last.self) /\ last.v # last.c.x)
    /\ \A i \in DOMAIN made :
          made[i].ret.k = "wrapper" =>
            (made[i].ret.a # made[i].recv /\ made[i].ret # made[i].c.x)

\* C8, amended: a combinator of AsyncOption or AsyncResult returns a
\* wrapper allocated by the call; a combinator of Option or Result returns
\* the receiver itself, its argument, what the callback returned, or a
\* container allocated by the call, as Origin lists, and it allocates
\* nothing when it returns the receiver or the argument.
C8_FreshOrShared ==
    [][/\ (last' # last /\ last'.self # 0 /\ last'.st = "return"
              /\ last'.c.m \in Combinators /\ last'.v.k = "ref") =>
            LET from == Origin(heap, last'.self, last'.c, last'.calls) IN
            /\ from = "this" => (last'.v = Ref(last'.self) /\ heap' = heap)
            /\ from = "arg" => (last'.v = last'.c.x /\ heap' = heap)
            /\ from = "fn" => last'.v = last'.calls[Len(last'.calls)].v
            /\ from = "new" => (last'.v.a > Len(heap) /\ last'.v.a <= Len(heap'))
       /\ made' # made =>
            LET e == made'[Len(made')] IN
            e.ret.k = "wrapper" =>
              (e.ret.a > Len(wrappers) /\ e.ret.a <= Len(wrappers'))]_vars

\* C8: some(n).and(b) has returned b itself, an object other than the
\* receiver
C8_Witness ==
    /\ OnOption /\ Receiver.tag = "Some" /\ last.c.m = "and" /\ last.st = "return"
    /\ last.v = last.c.x /\ last.v # Ref(last.self)

(* ====================== properties of chains =========================== *)

\* the promise call i returned, or the promise of the wrapper it returned
DerivedOf(i) ==
    IF made[i].ret.k = "wrapper" THEN wrappers[made[i].ret.a].promise ELSE made[i].ret.a
\* call j is chained on the wrapper call i returned
Link(i, j) == made[i].ret.k = "wrapper" /\ made[j].recv = made[i].ret.a
\* the positions in the trace where the callback of call i was invoked
Invoked(i) ==
    IF made[i].c.m = "asPromise" THEN {}
    ELSE {k \in DOMAIN trace : trace[k].d = DerivedOf(i)}

\* C5: when call j is chained on the result of call i, the callback of j is
\* invoked only after the callback of i (if it is invoked at all) has
\* returned and, if that callback returned a wrapper, after the promise of
\* that wrapper has settled.
C5_ChainOrder ==
    \A i \in DOMAIN made : \A j \in DOMAIN made :
        Link(i, j) =>
            \A kj \in Invoked(j) : \A ki \in Invoked(i) :
                /\ ki < kj
                /\ trace[ki].v.k = "wrapper" => ~Pends(wrappers[trace[ki].v.a].promise)

\* C5: w.andThen(() => other).map(next): both callbacks have been invoked,
\* the first returned wrapper 2
C5_Witness ==
    /\ Len(made) = 2 /\ Link(1, 2)
    /\ made[1].c.m = "andThen" /\ made[1].c.f.f = "other" /\ made[2].c.m = "map"
    /\ Invoked(1) # {} /\ Invoked(2) # {}

\* C6: a settled promise never changes; a wrapper keeps the promise it was
\* constructed with, and asPromise() returns that promise on every call;
\* every transform(x => x) on a wrapper whose promise is fulfilled is
\* fulfilled with the very container that promise holds.
C6_SettlesOnce ==
    [][/\ \A p \in DOMAIN promises :
            ~Pends(p) => promises'[p] = promises[p]
       /\ \A w \in DOMAIN wrappers : wrappers'[w] = wrappers[w]
       /\ \A i \in DOMAIN made' :
            /\ made'[i].c.m = "asPromise" =>
                  made'[i].ret = PromiseRef(wrappers'[made'[i].recv].promise)
            /\ (made'[i].c.m = "transform"
                    /\ promises'[wrappers'[made'[i].ret.a].promise].state = "fulfilled") =>
                  promises'[wrappers'[made'[i].ret.a].promise].value
                      = promises'[wrappers'[made'[i].recv].promise].value]_vars

\* C6: asPromise() was called twice on wrapper 1 and returned promise 1
\* both times, and promise 1 is fulfilled
C6_Witness ==
    /\ Len(made) = 2
    /\ \A i \in {1, 2} : made[i].c.m = "asPromise" /\ made[i].recv = 1
                           /\ made[i].ret = PromiseRef(1)
    /\ promises[1].state = "fulfilled"

(* ============ properties of flatten and transpose ====================== *)

\* the class of value v and the payload of container v, in the heap as it is
TagOf(v) == Tag([heap |-> heap], v)
Inner(v) == Field([heap |-> heap], v.a)
\* the last step applied namespace function fn
Applied(fn) == made # << >> /\ last.c.m = fn

\* C12: Option.transpose returns Ok(None) for a None, Ok(Some(v)) for
\* Some(Ok(v)) and Err(e) for Some(Err(e)).
C12_OptionTranspose ==
    Applied("Option.transpose") =>
        /\ last.st = "return"
        /\ CASE TagOf(last.c.x) = "None" ->
                   TagOf(last.v) = "Ok" /\ TagOf(Inner(last.v)) = "None"
             [] TagOf(Inner(last.c.x)) = "Ok" ->
                   /\ TagOf(last.v) = "Ok" /\ TagOf(Inner(last.v)) = "Some"
                   /\ Inner(Inner(last.v)) = Inner(Inner(last.c.x))
             [] TagOf(Inner(last.c.x)) = "Err" ->
                   /\ TagOf(last.v) = "Err"
                   /\ Inner(last.v) = Inner(Inner(last.c.x))

\* C12: Option.transpose(Some(Ok(1))) returned an Ok of a Some of 1
C12_Witness ==
    /\ Applied("Option.transpose")
    /\ TagOf(last.c.x) = "Some" /\ TagOf(Inner(last.c.x)) = "Ok"
    /\ Inner(Inner(last.c.x)) = Num(1)
    /\ TagOf(last.v) = "Ok" /\ TagOf(Inner(last.v)) = "Some"
    /\ Inner(Inner(last.v)) = Num(1)

\* C13: Result.transpose returns a None for Ok(None), Some(Ok(v)) for
\* Ok(Some(v)) and Some(Err(e)) for Err(e).
C13_ResultTranspose ==
    Applied("Result.transpose") =>
        /\ last.st = "return"
        /\ CASE TagOf(last.c.x) = "Err" ->
                   /\ TagOf(last.v) = "Some" /\ TagOf(Inner(last.v)) = "Err"
                   /\ Inner(Inner(last.v)) = Inner(last.c.x)
             [] TagOf(Inner(last.c.x)) = "None" -> TagOf(last.v) = "None"
             [] TagOf(Inner(last.c.x)) = "Some" ->
                   /\ TagOf(last.v) = "Some" /\ TagOf(Inner(last.v)) = "Ok"
                   /\ Inner(Inner(last.v)) = Inner(Inner(last.c.x))

\* C13: Result.transpose(Err(1)) returned a Some of an Err of 1
C13_Witness ==
    /\ Applied("Result.transpose")
    /\ TagOf(last.c.x) = "Err" /\ Inner(last.c.x) = Num(1)
    /\ TagOf(last.v) = "Some" /\ TagOf(Inner(last.v)) = "Err"
    /\ Inner(Inner(last.v)) = Num(1)

\* C14: the transpose of the other namespace applied to what a transpose
\* returned gives back a container equal to the first argument, variant by
\* variant and payload by payload: Option.transpose(Result.transpose(r))
\* equals r and Result.transpose(Option.transpose(o)) equals o.
C14_TransposeRoundTrip ==
    \A i \in 1 .. (Len(made) - 1) :
        (/\ {made[i].c.m, made[i + 1].c.m} = {"Option.transpose", "Result.transpose"}
         /\ made[i + 1].c.x = made[i].ret) =>
            DeepEq(heap, made[i + 1].ret, heap, made[i].c.x)

\* C14: Result.transpose(Option.transpose(o)) for o a Some of an Ok returned
\* a Some of an Ok that is another object than o
C14_Witness ==
    /\ Len(made) = 2
    /\ made[1].c.m = "Option.transpose" /\ made[2].c.m = "Result.transpose"
    /\ made[2].c.x = made[1].ret
    /\ TagOf(made[1].c.x) = "Some" /\ TagOf(Inner(made[1].c.x)) = "Ok"
    /\ TagOf(made[2].ret) = "Some" /\ TagOf(Inner(made[2].ret)) = "Ok"
    /\ made[2].ret # made[1].c.x

\* C14: Option.transpose(Result.transpose(r)) for r an Ok of a None returned
\* an Ok of a None
C14_WitnessResult ==
    /\ Len(made) = 2
    /\ made[1].c.m = "Result.transpose" /\ made[2].c.m = "Option.transpose"
    /\ made[2].c.x = made[1].ret
    /\ TagOf(made[1].c.x) = "Ok" /\ TagOf(Inner(made[1].c.x)) = "None"
    /\ TagOf(made[2].ret) = "Ok" /\ TagOf(Inner(made[2].ret)) = "None"

\* C19: flatten removes one level of nesting and no more: Option.flatten
\* returns x itself for Some(x), whatever x holds, and a None for a None;
\* Result.flatten returns r itself for Ok(r) and an Err of e for Err(e).
C19_FlattenOneLevel ==
    /\ Applied("Option.flatten") =>
          /\ last.st = "return"
          /\ IF TagOf(last.c.x) = "Some"
             THEN last.v = Inner(last.c.x)
             ELSE TagOf(last.v) = "None"
    /\ Applied("Result.flatten") =>
          /\ last.st = "return"
          /\ IF TagOf(last.c.x) = "Ok"
             THEN last.v = Inner(last.c.x)
             ELSE TagOf(last.v) = "Err" /\ Inner(last.v) = Inner(last.c.x)

\* C19: Option.flatten(Some(Some(Some(v)))) returned the Some(Some(v)) inside
C19_Witness ==
    /\ Applied("Option.flatten")
    /\ TagOf(last.c.x) = "Some" /\ TagOf(Inner(last.c.x)) = "Some"
    /\ TagOf(Inner(Inner(last.c.x))) = "Some"
    /\ Inner(Inner(Inner(last.c.x))) \in Nums
    /\ last.v = Inner(last.c.x)

\* C19: Result.flatten(Ok(Ok(Ok(v)))) returned the Ok(Ok(v)) inside
C19_WitnessResult ==
    /\ Applied("Result.flatten")
    /\ TagOf(last.c.x) = "Ok" /\ TagOf(Inner(last.c.x)) = "Ok"
    /\ TagOf(Inner(Inner(last.c.x))) = "Ok"
    /\ Inner(Inner(Inner(last.c.x))) \in Nums
    /\ last.v = Inner(last.c.x)

(* ======================= laws of the combinators ======================= *)

\* C21: opt.andThen(x => f(x).andThen(g)) ends as opt.andThen(f).andThen(g)
\* does: both return, and the containers returned are equal variant by
\* variant and payload by payload, or both throw the same error.
C21_AndThenAssociative ==
    (OnOption /\ last.c.m = "andThen" /\ last.c.f.f = "andThenOf") =>
        \E r1 \in {Invoke([heap |-> heap, calls |-> << >>], last.self,
                           Call("andThen", Undef, Composable[last.c.f.env.a], "", ""))} :
        \E r2 \in {IF r1.st = "throw" THEN r1
                   ELSE Invoke(r1.s, r1.v.a, Call("andThen", Undef, last.c.f.g, "", ""))} :
            /\ r2.st = last.st
            /\ r2.st = "throw" => (r2.cls = last.cls /\ r2.msg = last.msg)
            /\ r2.st = "return" => DeepEq(r2.s.heap, r2.v, heap, last.v)

\* C21: Some(1).andThen(x => some(x).andThen(x => some(x))) returned a
\* Some(1) after calling both functions
C21_Witness ==
    /\ OnOption /\ last.c.m = "andThen"
    /\ last.c.f = Closure("andThenOf", FnVal("some"), "some")
    /\ Receiver = [tag |-> "Some", fields |-> <<Num(1)>>]
    /\ Len(last.calls) = 2
    /\ TagOf(last.v) = "Some" /\ Inner(last.v) = Num(1)

(* ==================== properties of the constructors =================== *)

\* C22: Option.fromOptional(value) returns a None exactly when value is null
\* or undefined; for every other value, 0, the empty string and false
\* included, it returns a Some holding that value.
C22_FromOptional ==
    (made = << >> /\ last.c.m = "fromOptional") =>
        /\ last.st = "return"
        /\ TagOf(last.v) \in {"Some", "None"}
        /\ TagOf(last.v) = "None" <=> last.c.x \in {Null, Undef}
        /\ TagOf(last.v) = "Some" => Inner(last.v) = last.c.x

\* C22: Option.fromOptional(0) returned Some(0)
C22_Witness ==
    /\ made = << >> /\ last.c.m = "fromOptional" /\ last.c.x = Num(0)
    /\ TagOf(last.v) = "Some" /\ Inner(last.v) = Num(0)

\* C22: Option.fromOptional(null) returned a None
C22_WitnessNull ==
    /\ made = << >> /\ last.c.m = "fromOptional" /\ last.c.x = Null
    /\ TagOf(last.v) = "None"

(* ============ properties of the conversions and pass-throughs ========== *)

\* C23: result.ok() is a Some of the value of an Ok and a None for an Err;
\* result.err() is a Some of the error of an Err and a None for an Ok;
\* okOr and okOrElse give an Ok of the value of a Some, without calling the
\* function, and for a None an Err of the given error, or of what the
\* function, called once, returns.
C23_ConversionsKeepPayload ==
    /\ (OnResult /\ last.c.m \in {"ok", "err"}) =>
          /\ last.st = "return"
          /\ IF (Receiver.tag = "Ok") <=> (last.c.m = "ok")
             THEN ReturnedTag = "Some" /\ ReturnedField = Receiver.fields[1]
             ELSE ReturnedTag = "None"
    /\ (OnOption /\ last.c.m \in {"okOr", "okOrElse"} /\ NonThrowing) =>
          /\ last.st = "return"
          /\ IF Receiver.tag = "Some"
             THEN /\ ReturnedTag = "Ok" /\ ReturnedField = Receiver.fields[1]
                  /\ last.calls = << >>
             ELSE /\ ReturnedTag = "Err"
                  /\ IF last.c.m = "okOr"
                     THEN ReturnedField = last.c.x /\ last.calls = << >>
                     ELSE /\ Len(last.calls) = 1
                          /\ last.calls[1].f = last.c.f.f
                          /\ ReturnedField = last.calls[1].v

\* C23: Err(1).err() returned Some(1)
C23_Witness ==
    /\ OnResult /\ last.c.m = "err"
    /\ Receiver = [tag |-> "Err", fields |-> <<Num(1)>>]
    /\ ReturnedTag = "Some" /\ ReturnedField = Num(1)

\* C23: None.okOrElse(f) returned an Err of what f returned
C23_WitnessNone ==
    /\ OnOption /\ last.c.m = "okOrElse" /\ Receiver.tag = "None"
    /\ Len(last.calls) = 1
    /\ ReturnedTag = "Err" /\ ReturnedField = last.calls[1].v

\* C24: the side of a Result that a method does not touch passes through:
\* and, andThen and map on an Err, and mapErr, or and orElse on an Ok,
\* return a Result of the same variant and payload and call no function;
\* andThen on a wrapper whose promise is fulfilled with an Err fulfils the
\* derived promise with an Err of the same error and calls no function.
C24_UntouchedSidePasses ==
    /\ (/\ OnResult
         /\ \/ Receiver.tag = "Err" /\ last.c.m \in {"and", "andThen", "map"}
            \/ Receiver.tag = "Ok" /\ last.c.m \in {"mapErr", "or", "orElse"}) =>
          /\ last.st = "return"
          /\ DeepEq(heap, last.v, heap, Ref(last.self))
          /\ last.calls = << >>
    /\ (/\ Made /\ wrappers[1].cls = "AsyncResult" /\ TheCall.m = "andThen"
         /\ promises[1].state = "fulfilled"
         /\ Tag(Store, promises[1].value) = "Err") =>
          /\ trace = << >>
          /\ ~Pends(Derived) =>
                /\ promises[Derived].state = "fulfilled"
                /\ DeepEq(heap, promises[Derived].value, heap, promises[1].value)

\* C24: andThen with a throwing function on a wrapper of an Err: the derived
\* promise is fulfilled with another Err object holding the same error
C24_Witness ==
    /\ Made /\ wrappers[1].cls = "AsyncResult" /\ TheCall.m = "andThen"
    /\ TheCall.f.f = "boom"
    /\ promises[1].state = "fulfilled" /\ Tag(Store, promises[1].value) = "Err"
    /\ promises[Derived].state = "fulfilled"
    /\ promises[Derived].value # promises[1].value
    /\ Tag(Store, promises[Derived].value) = "Err"

\* C24: Err(e).map(f) with a throwing f returned the receiver
C24_WitnessSync ==
    /\ OnResult /\ Receiver.tag = "Err" /\ last.c.m = "map"
    /\ last.c.f.f = "boom" /\ last.st = "return" /\ last.v = Ref(last.self)

(* ============ properties of the callbacks of the wrappers ============== *)

\* the step that runs the job at the head of the microtask queue
RunsHead ==
    /\ queue # << >>
    /\ ~(Len(queue') >= Len(queue) /\ SubSeq(queue', 1, Len(queue)) = queue)
\* the step that applies the combining function of unwrapAnd: the job that
\* runs otherOption => fn(option, otherOption) on a fulfilled promise
Combines ==
    /\ RunsHead
    /\ Head(queue).job = "reaction" /\ Head(queue).h.kind = "unwrapAndInner"
    /\ promises[Head(queue).on].state = "fulfilled"
\* the reactions and jobs of unwrapAnd that are still to run
ToCombine(rs) ==
    {i \in DOMAIN rs : rs[i].h.kind \in {"unwrapAnd", "unwrapAndInner"}}
\* what the callback of zipWith, the only one a combining function calls, has
\* seen: one call at most, on the values of the two fulfilled containers
ZipWithCalls ==
    (Made /\ TheCall.m = "zipWith") =>
        /\ Len(trace) <= 1
        /\ trace # << >> =>
              /\ promises[1].state = "fulfilled" /\ promises[2].state = "fulfilled"
              /\ trace[1].x = Field(Store, promises[1].value.a)
              /\ TheCall.f.f = "snd" => trace[1].v = Field(Store, promises[2].value.a)

\* C25: the combining function of a binary combinator is applied when both
\* operands' promises are fulfilled, to the container of the receiver as
\* its first argument and to the container of the other operand as its
\* second, in whichever order the two were fulfilled; nothing of the
\* combinator is left to run afterwards, so it is applied once at most; the
\* callback of zipWith is called once at most, with the two values in that
\* order.
C25_CombinerOnceAfterBoth ==
    [][/\ Combines =>
            /\ promises[1].state = "fulfilled" /\ promises[2].state = "fulfilled"
            /\ Head(queue).h.first = promises[1].value
            /\ Head(queue).on = 2
            /\ ToCombine(reacts \o queue) = {Len(reacts) + 1}
            /\ ToCombine(reacts' \o queue') = {}
       /\ ZipWithCalls']_vars

\* C25: the other operand was fulfilled while the receiver was pending, and
\* the callback of zipWith has then been called on the value of the receiver
\* and has returned the value of the other operand, which differs
C25_Witness ==
    /\ Made /\ TheCall.m = "zipWith" /\ TheCall.f.f = "snd"
    /\ Len(trace) = 1
    /\ trace[1].x = Field(Store, promises[1].value.a)
    /\ trace[1].v = Field(Store, promises[2].value.a)
    /\ trace[1].x # trace[1].v
    /\ promises[2].value.a < promises[1].value.a

\* how many of the recorded calls are calls of callback f
Count(calls, f) == Cardinality({i \in DOMAIN calls : calls[i].f = f})
\* call c has a callback for the empty side (None, Err) as its first
\* function: orElse, unwrapOrElse, okOrElse, and mapOrElse when its two
\* functions can be told apart
LazyOnEmpty(c) ==
    \/ c.m \in {"orElse", "unwrapOrElse", "okOrElse"}
    \/ c.m = "mapOrElse" /\ c.f.f # c.g.f
\* call c has a callback for the full side (Some, Ok) as its first function
LazyOnFull(c) == c.m \in {"andThen", "map"} /\ c.f.f # "andThenOf"
\* how often call c on a container of class tag calls its first function
Needed(c, tag) ==
    IF (tag \in {"None", "Err"}) <=> LazyOnEmpty(c) THEN 1 ELSE 0

\* C26: the callback of orElse, unwrapOrElse, okOrElse and the default
\* callback of mapOrElse is called once on a None or an Err and not at all
\* on a Some or an Ok; the callback of andThen and map once on a Some or an
\* Ok and not at all otherwise. On a wrapper the callback is not called
\* before the promise of the wrapper is fulfilled, and then as often as the
\* container the promise holds requires.
C26_LazyCallbacks ==
    /\ ((OnOption \/ OnResult) /\ (LazyOnEmpty(last.c) \/ LazyOnFull(last.c))) =>
          Count(last.calls, last.c.f.f) = Needed(last.c, Receiver.tag)
    /\ (Made /\ (LazyOnEmpty(TheCall) \/ LazyOnFull(TheCall))) =>
          IF promises[1].state = "fulfilled"
          THEN \E n \in {Needed(TheCall, Tag(Store, promises[1].value))} :
                  /\ Count(trace, TheCall.f.f) <= n
                  /\ ~Pends(Derived) => Count(trace, TheCall.f.f) = n
          ELSE Count(trace, TheCall.f.f) = 0

\* C26: orElse on a wrapper whose promise is fulfilled with a None has
\* called its callback once
C26_Witness ==
    /\ Made /\ TheCall.m = "orElse" /\ promises[1].state = "fulfilled"
    /\ Tag(Store, promises[1].value) = "None"
    /\ Count(trace, TheCall.f.f) = 1 /\ ~Pends(Derived)

\* C26: mapOrElse with a throwing default on a Some has returned without
\* calling it
C26_WitnessSync ==
    /\ OnOption /\ last.c.m = "mapOrElse" /\ last.c.f.f = "boom"
    /\ Receiver.tag = "Some" /\ last.st = "return"
    /\ Count(last.calls, "boom") = 0

\* C27: the step that makes a combinator call on a wrapper invokes no
\* callback, whether the promise of the wrapper is pending or, as for a
\* wrapper built from a container at hand, fulfilled already; a callback is
\* invoked only by a later step, a job of the microtask queue, when the
\* promise of the wrapper is fulfilled.
C27_CallbacksDeferred ==
    [][/\ made' # made => trace' = trace
       /\ trace' # trace =>
            /\ Made /\ made' = made
            /\ RunsHead
            /\ promises[1].state = "fulfilled"
            /\ \A i \in DOMAIN trace' : trace'[i].d # 0]_vars

\* C27: map was called on a wrapper whose promise is fulfilled; its callback
\* has not been invoked and waits in the microtask queue
C27_Witness ==
    /\ Made /\ TheCall.m = "map" /\ promises[1].state = "fulfilled"
    /\ Pends(Derived) /\ trace = << >>
    /\ queue # << >> /\ Head(queue).d = Derived

\* C27: the callback of map has been invoked by the job that settles the
\* derived promise
C27_WitnessRun ==
    /\ Made /\ TheCall.m = "map" /\ Len(trace) = 1
    /\ trace[1].d = Derived /\ ~Pends(Derived)

\* C28: with q a wrapper whose promise rejects: the promise of
\* some(v).or(q) and of none().and(q) never fulfils and, once settled, is
\* rejected with q's reason, although the first operand alone decides the
\* value; the promise of some(v).orElse(() => q) is fulfilled with Some(v)
\* and that of none().andThen(() => q) with a None, and the callback is not
\* invoked.
C28_EagerAlternativeRejects ==
    (/\ Made /\ wrappers[1].cls = "AsyncOption" /\ wrappers[2].cls = "AsyncOption"
     /\ promises[1].state = "fulfilled" /\ promises[2].state = "rejected") =>
        \E tag \in {Tag(Store, promises[1].value)} :
          /\ (\/ TheCall.m = "or" /\ tag = "Some"
              \/ TheCall.m = "and" /\ tag = "None") =>
                /\ promises[Derived].state # "fulfilled"
                /\ queue = << >> => promises[Derived].state = "rejected"
                /\ promises[Derived].state = "rejected" =>
                      /\ promises[Derived].cls = "Reason"
                      /\ promises[Derived].msg = Reasons[2]
          /\ (/\ TheCall.f.f = "other"
              /\ \/ TheCall.m = "orElse" /\ tag = "Some"
                 \/ TheCall.m = "andThen" /\ tag = "None") =>
                /\ promises[Derived].state # "rejected"
                /\ trace = << >>
                /\ queue = << >> =>
                      /\ promises[Derived].state = "fulfilled"
                      /\ DeepEq(heap, promises[Derived].value, heap, promises[1].value)

\* C28: some(v).or(q) with q rejected: the combined promise is rejected with
\* q's reason
C28_Witness ==
    /\ Made /\ TheCall.m = "or" /\ promises[1].state = "fulfilled"
    /\ Tag(Store, promises[1].value) = "Some"
    /\ promises[2].state = "rejected"
    /\ promises[Derived].state = "rejected" /\ promises[Derived].msg = Reasons[2]

\* C28: some(v).orElse(() => q) with q rejected: the derived promise is
\* fulfilled with a Some
C28_WitnessLazy ==
    /\ Made /\ TheCall.m = "orElse" /\ TheCall.f.f = "other"
    /\ promises[1].state = "fulfilled" /\ promises[2].state = "rejected"
    /\ promises[Derived].state = "fulfilled"
    /\ Tag(Store, promises[Derived].value) = "Some"

\* C29: a call whose callback throws has returned a wrapper before the
\* callback runs: no callback is invoked within a call. Once the callback
\* has thrown, the promise of that wrapper is rejected with the thrown
\* value, the promise of the receiver is still fulfilled, and the promise
\* of every other wrapper derived from the receiver with a callback that
\* returns is never rejected and is fulfilled once the jobs have run.
C29_ThrowRejectsDerivedOnly ==
    /\ \A k \in DOMAIN trace : trace[k].d # 0
    /\ \A i \in DOMAIN made : made[i].c.f.f = "boom" =>
        /\ made[i].ret.k = "wrapper"
        /\ \A k \in Invoked(i) : trace[k].st = "throw" =>
            /\ promises[DerivedOf(i)] = Rejected(Undef, "UserError", "boom")
            /\ promises[wrappers[made[i].recv].promise].state = "fulfilled"
            /\ \A j \in DOMAIN made \ {i} :
                  (made[j].recv = made[i].recv /\ made[j].c.f.f \notin {"boom", "other"}) =>
                     /\ promises[DerivedOf(j)].state # "rejected"
                     /\ queue = << >> => promises[DerivedOf(j)].state = "fulfilled"

\* C29: w.map(boom) and w.map(next) on the same wrapper: the first derived
\* promise is rejected with the thrown value, the second is fulfilled
C29_Witness ==
    /\ Len(made) = 2 /\ made[1].recv = 1 /\ made[2].recv = 1
    /\ made[1].c.m = "map" /\ made[1].c.f.f = "boom"
    /\ made[2].c.m = "map" /\ made[2].c.f.f = "next"
    /\ promises[DerivedOf(1)].state = "rejected" /\ promises[DerivedOf(1)].cls = "UserError"
    /\ promises[1].state = "fulfilled" /\ promises[DerivedOf(2)].state = "fulfilled"

\* C29: w.andThen(boom) followed by w.transform(x => x): the callback threw
\* after both calls had returned
C29_WitnessAndThen ==
    /\ Len(made) = 2 /\ made[1].recv = 1 /\ made[2].recv = 1
    /\ made[1].c.m = "andThen" /\ made[1].c.f.f = "boom" /\ made[2].c.m = "transform"
    /\ promises[DerivedOf(1)].state = "rejected" /\ promises[DerivedOf(1)].msg = "boom"
    /\ promises[DerivedOf(2)].state = "fulfilled"

(* ====================== eventual settlement ============================ *)

\* C30: when the engine keeps running the jobs and every source promise
\* settles in the end, the promise of the wrapper returned by each call of
\* a chain of unary and binary combinators is eventually settled; no
\* derived promise stays pending forever.
C30_EventuallySettles ==
    \A i \in 1..MaxChain :
        (Len(made) >= i) ~> (Len(made) >= i /\ ~Pends(DerivedOf(i)))

\* C30: a binary call on wrappers 1 and 2 and a call chained on its result:
\* every promise is settled and no job is left
C30_Witness ==
    /\ Len(made) = MaxChain /\ made[1].c.m \in {"and", "or"}
    /\ \A i \in DOMAIN made : i > 1 => Link(i - 1, i)
    /\ queue = << >> /\ \A p \in DOMAIN promises : ~Pends(p)

====
